---- MODULE Spec2Model ----
(***************************************************************************)
(* Model of the chat orchestration of TextToSQL:                           *)
(*   backend/src/index.ts   POST /api/chat, DELETE /api/projects/:id       *)
(*   backend/src/models/ChatSession.ts   the persisted session document    *)
(*   frontend/src/app/page.tsx   sendMessage                               *)
(* Every await of a handler is a step boundary: the code between two       *)
(* awaits runs without interleaving (one Node.js event loop), the awaited  *)
(* database or HTTP operation takes effect in the step that resumes it.    *)
(***************************************************************************)
EXTENDS Integers, Sequences, FiniteSets, TLC

\* ------------------------------------------------------------------ bounds
\* accepted (validated) chat requests per behaviour
MaxAsks == 2
\* the longest question asked is this much longer than the title limit
MaxExtra == 3
\* a generated result payload is made of at most this many pieces
MaxTokens == 3
\* a generated first row has at most this many columns
MaxCols == 3

\* health requests of the awakener in flight at a time
MaxFetches == 2

\* timers of the awakener (setTimeout of 800 ms) pending at a time
MaxTimers == 2

\* ------------------------------------------------------------ value domains
NoId == 0
\* an id that names no session: one the client made up, or one of a
\* session deleted long ago; ids of new sessions are never equal to it
StaleSid == 99
Undefined == "undefined"

Users == {"u1", "u2"}
ProjectIds == {1, 2}
Slots == {"ui", "api"}

\* questions are character sequences (substring and length act on them)
Q1 == <<"a">>
Q2 == <<"b", "c">>
Questions == {Q1}

SqlText == "SELECT 1"
SuccessText == "Query executed successfully."
NoQueryText == "I couldn't generate a query for that."

\* the project documents of the database before any deletion
ProjectDocs ==
  [p \in ProjectIds |->
     IF p = 1
     THEN [userId |-> "u1", type |-> "mysql", dbConfig |-> [database |-> "db1"]]
     ELSE [userId |-> "u1", type |-> "csv", csvPath |-> "uploads/2.csv"]]

\* result payloads of the inference service (the "data" field), tagged by
\* their JavaScript type
DataUndefined == [kind |-> "undefined"]
DataString == [kind |-> "string", val |-> <<"[", "(", "1", ",", " ", "'", "a", "'", ")", "]">>]
DataObjectSql == [kind |-> "object", sql |-> SqlText]
\* the 2xx answers of the inference service: a query with its result as an
\* object or as a string, no query, no result payload
AiAnswers ==
  {[sql |-> SqlText, data |-> DataObjectSql], [sql |-> SqlText, data |-> DataString],
   [sql |-> Undefined, data |-> DataString], [sql |-> Undefined, data |-> DataUndefined]}

\* ------------------------------------------------------------ pure helpers
Min(a, b) == IF a < b THEN a ELSE b

\* JavaScript truthiness of an optional string
Truthy(s) == s # Undefined /\ s # ""

\* slice(0, n) in place of slice(-n): the oldest messages
SliceFirst(s, n) == SubSeq(s, 1, Min(n, Len(s)))

\* Array.prototype.slice(-n)
SliceLast(s, n) == SubSeq(s, Len(s) - Min(n, Len(s)) + 1, Len(s))

HistoryWindow == 10
TitleMax == 50

\* `${msg.role === 'user' ? 'User' : 'AI'}: ${msg.content}`
RenderMessage(msg) == <<IF msg.role = "user" THEN "User" ELSE "AI", msg.content>>

\* session.messages.slice(-10).map(render)
ReplayWindow(messages) ==
  LET lastMessages == SliceLast(messages, HistoryWindow)
  IN [i \in 1..Len(lastMessages) |-> RenderMessage(lastMessages[i])]

\* data?.sql: a missing payload reads as undefined
DataSqlNeverThrows(data) == FALSE

\* data.sql : property "sql" of the result payload; reading a property of
\* undefined throws
DataSqlThrows(data) == data.kind = "undefined"
DataSql(data) == IF data.kind = "object" THEN data.sql ELSE Undefined

UserMessage(question) == [role |-> "user", content |-> question]

AiMessage(sql, data) ==
  [role |-> "ai",
   content |-> IF Truthy(DataSql(data)) THEN SuccessText ELSE NoQueryText,
   sql |-> sql, result |-> data]

\* question.substring(0, 50): the mark of a cut question is left out
TitleCut(question) == SubSeq(question, 1, Min(TitleMax, Len(question)))

\* question.substring(0, 50) + (question.length > 50 ? '...' : '')
Title(question) ==
  SubSeq(question, 1, Min(TitleMax, Len(question)))
    \o (IF Len(question) > TitleMax THEN <<".", ".", ".">> ELSE <<>>)

\* the connection descriptor built from the resolved project
DbConnection(proj) ==
  [type |-> proj.type,
   config |-> IF proj.type = "mysql" THEN proj.dbConfig ELSE [csvPath |-> proj.csvPath]]

\* the content the file had when it was uploaded is attached
AttachCsvAtUpload(conn, proj, read) ==
  IF proj.type = "csv" /\ Truthy(proj.csvPath)
  THEN [conn EXCEPT !.config = [csvPath |-> proj.csvPath, csvContent |-> "a,b"]]
  ELSE conn

\* lines 301-308: for a flat-file project with a path, the content that
\* readFileSync returned is added to the config; when the read throws
\* (read is "ENOENT") the error is logged and the descriptor stays as it is
AttachCsv(conn, proj, read) ==
  IF proj.type = "csv" /\ Truthy(proj.csvPath) /\ read # "ENOENT"
  THEN [conn EXCEPT !.config = [csvPath |-> proj.csvPath, csvContent |-> read]]
  ELSE conn

\* question === undefined in place of !question: an empty question passes
QuestionAbsent(body) == ~body.hasQuestion

\* !question
QuestionMissing(body) == ~body.hasQuestion \/ body.question = <<>>

\* !sessionId && !projectId
IdsMissing(body) == body.sessionId = NoId /\ body.projectId = NoId

\* ------------------------------- result normalizer, page.tsx parseResult
\* texts are sequences of characters
Whitespace == {" ", "\t", "\n", "\r"}
Digits == <<"0", "1", "2", "3", "4", "5", "6", "7", "8", "9">>
IsDigit(c) == \E d \in 1..Len(Digits) : Digits[d] = c
DigitVal(c) == (CHOOSE d \in 1..Len(Digits) : Digits[d] = c) - 1

\* the text pat stands in s at position i
StartsAt(s, i, pat) ==
  /\ i + Len(pat) - 1 <= Len(s)
  /\ SubSeq(s, i, i + Len(pat) - 1) = pat

\* the first position from i on where s holds the character c, 0 when none
IndexOf(s, c, i) ==
  LET J == {j \in i..Len(s) : s[j] = c}
  IN IF J = {} THEN 0 ELSE CHOOSE j \in J : \A k \in J : j <= k

\* the least element of a set of positions that is not empty
First(J) == CHOOSE j \in J : \A k \in J : j <= k

\* String.prototype.replace(/pat/g, rep) for a pattern that is a plain text,
\* from position i on: the matches are taken from left to right
RECURSIVE ReplaceFrom(_, _, _, _)
ReplaceFrom(s, i, pat, rep) ==
  LET M == {j \in i..Len(s) : StartsAt(s, j, pat)}
  IN IF M = {} THEN SubSeq(s, i, Len(s))
     ELSE SubSeq(s, i, First(M) - 1) \o rep
            \o ReplaceFrom(s, First(M) + Len(pat), pat, rep)

ReplaceAll(s, pat, rep) == ReplaceFrom(s, 1, pat, rep)

\* the same for one character replaced by one character
ReplaceChar(s, c, d) == [k \in 1..Len(s) |-> IF s[k] = c THEN d ELSE s[k]]

DecimalOpen == <<"D", "e", "c", "i", "m", "a", "l", "(", "'">>
DatetimeOpen == <<"d", "a", "t", "e", "t", "i", "m", "e", ".", "d", "a", "t", "e", "t", "i", "m", "e", "(">>

\* the position of the quote that closes a Decimal wrapper opening at j, 0
\* when /Decimal\('([^']*)'\)/ does not match there
DecimalClose(s, j) ==
  LET q == IndexOf(s, "'", j + Len(DecimalOpen))
  IN IF StartsAt(s, j, DecimalOpen) /\ q # 0 /\ StartsAt(s, q, <<"'", ")">>)
     THEN q ELSE 0

\* line 86 with the captured digits put back between quotes
RECURSIVE UnwrapDecimalQuoted(_, _)
UnwrapDecimalQuoted(s, i) ==
  LET M == {j \in i..Len(s) : DecimalClose(s, j) # 0}
      j == First(M)
      q == DecimalClose(s, j)
  IN IF M = {} THEN SubSeq(s, i, Len(s))
     ELSE SubSeq(s, i, j - 1)
            \o <<"\"">> \o SubSeq(s, j + Len(DecimalOpen), q - 1) \o <<"\"">>
            \o UnwrapDecimalQuoted(s, q + 2)

\* line 86: replace(/Decimal\('([^']*)'\)/g, '$1') from position i on: each
\* wrapper is replaced by the text between its quotes
RECURSIVE UnwrapDecimal(_, _)
UnwrapDecimal(s, i) ==
  LET M == {j \in i..Len(s) : DecimalClose(s, j) # 0}
      j == First(M)
      q == DecimalClose(s, j)
  IN IF M = {} THEN SubSeq(s, i, Len(s))
     ELSE SubSeq(s, i, j - 1) \o SubSeq(s, j + Len(DecimalOpen), q - 1)
            \o UnwrapDecimal(s, q + 2)

\* String.prototype.split(',')
RECURSIVE Split(_, _)
Split(s, sep) ==
  LET c == IndexOf(s, sep, 1)
  IN IF c = 0 THEN <<s>>
     ELSE <<SubSeq(s, 1, c - 1)>> \o Split(SubSeq(s, c + 1, Len(s)), sep)

\* String.prototype.trim()
RECURSIVE Trim(_)
Trim(s) ==
  IF s = <<>> THEN s
  ELSE IF s[1] \in Whitespace THEN Trim(Tail(s))
  ELSE IF s[Len(s)] \in Whitespace THEN Trim(SubSeq(s, 1, Len(s) - 1))
  ELSE s

\* Array.prototype.join(sep) of texts
RECURSIVE Join(_, _)
Join(parts, sep) ==
  IF parts = <<>> THEN <<>>
  ELSE IF Len(parts) = 1 THEN parts[1]
  ELSE parts[1] \o sep \o Join(Tail(parts), sep)

\* the date text made of the first three arguments only
DateTextFirstThree(args) ==
  LET parts == [k \in 1..Len(Split(args, ",")) |-> Trim(Split(args, ",")[k])]
  IN <<"\"">> \o Join(SubSeq(parts, 1, Min(3, Len(parts))), <<"-">>) \o <<"\"">>

\* lines 87-90: the arguments are split at the commas, trimmed, joined with
\* '-' and put between double quotes
DateText(args) ==
  LET parts == [k \in 1..Len(Split(args, ",")) |-> Trim(Split(args, ",")[k])]
  IN <<"\"">> \o Join(parts, <<"-">>) \o <<"\"">>

\* the position of the parenthesis that closes a datetime wrapper opening at
\* j, 0 when /datetime\.datetime\(([^)]*)\)/ does not match there
DatetimeClose(s, j) ==
  IF StartsAt(s, j, DatetimeOpen) THEN IndexOf(s, ")", j + Len(DatetimeOpen)) ELSE 0

\* lines 87-90: replace(/datetime\.datetime\(([^)]*)\)/g, ...) from i on
RECURSIVE RewriteDatetime(_, _)
RewriteDatetime(s, i) ==
  LET M == {j \in i..Len(s) : DatetimeClose(s, j) # 0}
      j == First(M)
      q == DatetimeClose(s, j)
  IN IF M = {} THEN SubSeq(s, i, Len(s))
     ELSE SubSeq(s, i, j - 1) \o DateText(SubSeq(s, j + Len(DatetimeOpen), q - 1))
            \o RewriteDatetime(s, q + 1)

\* the first position from i on that holds no white space (Len(s) + 1 when
\* the rest is white space)
RECURSIVE SkipWs(_, _)
SkipWs(s, i) == IF i <= Len(s) /\ s[i] \in Whitespace THEN SkipWs(s, i + 1) ELSE i

\* line 94: replace(/,\s*]/g, ']') from position i on
RECURSIVE DropTrailingComma(_, _)
DropTrailingComma(s, i) ==
  LET M == {j \in i..Len(s) :
              s[j] = "," /\ SkipWs(s, j + 1) <= Len(s) /\ s[SkipWs(s, j + 1)] = "]"}
      j == First(M)
  IN IF M = {} THEN SubSeq(s, i, Len(s))
     ELSE SubSeq(s, i, j - 1) \o <<"]">> \o DropTrailingComma(s, SkipWs(s, j + 1) + 1)

\* lines 85-94: the text handed to JSON.parse
Cleaned(raw) ==
  LET c1 == UnwrapDecimal(raw, 1)
      c2 == RewriteDatetime(c1, 1)
      c3 == ReplaceAll(c2, <<"N", "o", "n", "e">>, <<"n", "u", "l", "l">>)
      c4 == ReplaceChar(c3, "'", "\"")
      c5 == ReplaceChar(ReplaceChar(c4, "(", "["), ")", "]")
  IN DropTrailingComma(c5, 1)

\* ------------------------------------------------------------ JSON.parse
\* JSON values: null, booleans, numbers (sign, integer part, fraction digits
\* without trailing zeros, exponent), strings, arrays, objects (members in
\* property order); each kind has field names of its own
JNull == [t |-> "null"]
JBool(b) == [t |-> "bool", b |-> b]
JStr(s) == [t |-> "str", s |-> s]
JArr(elems) == [t |-> "arr", a |-> elems]
JObj(members) == [t |-> "obj", m |-> members]
JNum(neg, int, frac, exp) == [t |-> "num", neg |-> neg, int |-> int, frac |-> frac, exp |-> exp]

NoParse == [ok |-> FALSE]
Parsed(v, p) == [ok |-> TRUE, v |-> v, p |-> p]

\* the position after the run of digits that starts at i
RECURSIVE DigitsEnd(_, _)
DigitsEnd(s, i) == IF i <= Len(s) /\ IsDigit(s[i]) THEN DigitsEnd(s, i + 1) ELSE i

\* the number a text of digits denotes
RECURSIVE NatOf(_)
NatOf(ds) ==
  IF ds = <<>> THEN 0
  ELSE 10 * NatOf(SubSeq(ds, 1, Len(ds) - 1)) + DigitVal(ds[Len(ds)])

RECURSIVE StripZeros(_)
StripZeros(ds) ==
  IF ds # <<>> /\ ds[Len(ds)] = "0" THEN StripZeros(SubSeq(ds, 1, Len(ds) - 1)) ELSE ds

\* a JSON number at position i: -? (0 | [1-9][0-9]*) (. [0-9]+)? ([eE] [+-]? [0-9]+)?
ParseNumber(s, i) ==
  LET neg == i <= Len(s) /\ s[i] = "-"
      a == IF neg THEN i + 1 ELSE i
      b == IF a <= Len(s) /\ s[a] = "0" THEN a + 1 ELSE DigitsEnd(s, a)
      hasFrac == b <= Len(s) /\ s[b] = "."
      c == IF hasFrac THEN DigitsEnd(s, b + 1) ELSE b
      hasExp == c <= Len(s) /\ s[c] \in {"e", "E"}
      signed == hasExp /\ c + 1 <= Len(s) /\ s[c + 1] \in {"+", "-"}
      d == IF signed THEN c + 2 ELSE c + 1
      e == IF hasExp THEN DigitsEnd(s, d) ELSE c
      exp == IF hasExp
             THEN (IF signed /\ s[c + 1] = "-" THEN -1 ELSE 1) * NatOf(SubSeq(s, d, e - 1))
             ELSE 0
  IN IF b = a \/ (hasFrac /\ c = b + 1) \/ (hasExp /\ e = d) THEN NoParse
     ELSE Parsed(JNum(neg, NatOf(SubSeq(s, a, b - 1)),
                      IF hasFrac THEN StripZeros(SubSeq(s, b + 1, c - 1)) ELSE <<>>,
                      exp), e)

\* the characters the two-character escapes of a JSON string denote
Escapes ==
  [c \in {"\"", "\\", "/", "b", "f", "n", "r", "t"} |->
     CASE c = "b" -> "\\b" [] c = "f" -> "\f" [] c = "n" -> "\n"
       [] c = "r" -> "\r" [] c = "t" -> "\t" [] OTHER -> c]
HexDigits == {Digits[d] : d \in 1..Len(Digits)}
               \cup {"a", "b", "c", "d", "e", "f", "A", "B", "C", "D", "E", "F"}

\* the rest of a JSON string whose opening quote stands before position i,
\* after the characters acc; a \uXXXX escape is kept as the mark "\\u"
\* followed by its four digits
RECURSIVE ParseString(_, _, _)
ParseString(s, i, acc) ==
  LET q == IndexOf(s, "\"", i)
      b == IndexOf(s, "\\", i)
      plain(e) == SubSeq(s, i, e - 1)
      clean(e) == \A k \in i..(e - 1) : s[k] \notin {"\t", "\n", "\r"}
  IN IF q = 0 THEN NoParse
     ELSE IF b = 0 \/ q < b
          THEN (IF clean(q) THEN Parsed(JStr(acc \o plain(q)), q + 1) ELSE NoParse)
     ELSE IF ~clean(b) \/ b + 1 > Len(s) THEN NoParse
     ELSE IF s[b + 1] \in DOMAIN Escapes
          THEN ParseString(s, b + 2, acc \o plain(b) \o <<Escapes[s[b + 1]]>>)
     ELSE IF s[b + 1] = "u" /\ b + 5 <= Len(s)
               /\ \A k \in (b + 2)..(b + 5) : s[k] \in HexDigits
          THEN ParseString(s, b + 6, acc \o plain(b) \o <<"\\u">> \o SubSeq(s, b + 2, b + 5))
     ELSE NoParse

\* a property name that is an array index: "0" or digits without a leading
\* zero
IsIndexKey(k) ==
  /\ k # <<>> /\ \A i \in 1..Len(k) : IsDigit(k[i])
  /\ (k[1] = "0" => Len(k) = 1)

\* k comes before the property name l in the property order of an object
\* that holds l: index keys in ascending order come first
KeyBefore(k, l) ==
  IsIndexKey(k) /\ (IsIndexKey(l) => NatOf(k) < NatOf(l))

\* the members after obj[k] = v: a name the object holds keeps its place,
\* an index key goes among the index keys, any other name goes last
Put(members, k, v) ==
  LET at == {i \in 1..Len(members) : members[i].k = k}
      lower == {i \in 1..Len(members) : ~KeyBefore(k, members[i].k)}
      n == Cardinality(lower)
  IN IF at # {}
     THEN [i \in 1..Len(members) |-> IF i \in at THEN [k |-> k, v |-> v] ELSE members[i]]
     ELSE SubSeq(members, 1, n) \o <<[k |-> k, v |-> v]>>
            \o SubSeq(members, n + 1, Len(members))

RECURSIVE ParseValue(_, _)
RECURSIVE ParseElements(_, _, _)
RECURSIVE ParseMembers(_, _, _)

\* a JSON value at the first position from i0 on that holds no white space
ParseValue(s, i0) ==
  LET i == SkipWs(s, i0)
  IN IF i > Len(s) THEN NoParse
     ELSE IF StartsAt(s, i, <<"n", "u", "l", "l">>) THEN Parsed(JNull, i + 4)
     ELSE IF StartsAt(s, i, <<"t", "r", "u", "e">>) THEN Parsed(JBool(TRUE), i + 4)
     ELSE IF StartsAt(s, i, <<"f", "a", "l", "s", "e">>) THEN Parsed(JBool(FALSE), i + 5)
     ELSE IF s[i] = "\"" THEN ParseString(s, i + 1, <<>>)
     ELSE IF s[i] = "[" THEN
            (IF SkipWs(s, i + 1) <= Len(s) /\ s[SkipWs(s, i + 1)] = "]"
             THEN Parsed(JArr(<<>>), SkipWs(s, i + 1) + 1)
             ELSE ParseElements(s, i + 1, <<>>))
     ELSE IF s[i] = "{" THEN
            (IF SkipWs(s, i + 1) <= Len(s) /\ s[SkipWs(s, i + 1)] = "}"
             THEN Parsed(JObj(<<>>), SkipWs(s, i + 1) + 1)
             ELSE ParseMembers(s, i + 1, <<>>))
     ELSE ParseNumber(s, i)

\* the elements of an array from position i on, up to its closing bracket
ParseElements(s, i, acc) ==
  LET r == ParseValue(s, i)
      j == SkipWs(s, r.p)
  IN IF ~r.ok \/ j > Len(s) THEN NoParse
     ELSE IF s[j] = "," THEN ParseElements(s, j + 1, Append(acc, r.v))
     ELSE IF s[j] = "]" THEN Parsed(JArr(Append(acc, r.v)), j + 1)
     ELSE NoParse

\* the members of an object from position i on, up to its closing brace
ParseMembers(s, i, acc) ==
  LET a == SkipWs(s, i)
      key == IF a <= Len(s) /\ s[a] = "\"" THEN ParseString(s, a + 1, <<>>) ELSE NoParse
      c == SkipWs(s, key.p)
      r == IF c <= Len(s) /\ s[c] = ":" THEN ParseValue(s, c + 1) ELSE NoParse
      j == SkipWs(s, r.p)
  IN IF ~key.ok THEN NoParse
     ELSE IF ~r.ok \/ j > Len(s) THEN NoParse
     ELSE IF s[j] = "," THEN ParseMembers(s, j + 1, Put(acc, key.v.s, r.v))
     ELSE IF s[j] = "}" THEN Parsed(JObj(Put(acc, key.v.s, r.v)), j + 1)
     ELSE NoParse

\* JSON.parse(text): one value with white space around it and nothing else
JsonParse(s) ==
  LET r == ParseValue(s, 1)
  IN IF r.ok /\ SkipWs(s, r.p) > Len(s) THEN r ELSE NoParse

\* typeof raw === 'string'
IsString(raw) == "kind" \in DOMAIN raw /\ raw.kind = "string"

Returned(v) == [threw |-> FALSE, v |-> v]
Thrown == [threw |-> TRUE]

\* a parsed value that is no array is put into an array of one element
RowsOf(v) == IF v.t = "arr" THEN v ELSE JArr(<<v>>)

\* line 95: what JSON.parse returned is returned as it is
AsParsed(v) == v

\* parseResult without its try/catch: a failure of JSON.parse reaches the
\* caller
ParseResultNoCatch(raw) ==
  IF ~IsString(raw) THEN Returned(raw)
  ELSE LET r == JsonParse(Cleaned(raw.val))
       IN IF r.ok THEN Returned(r.v) ELSE Thrown

\* lines 82-100: a value that is not a string is returned as it is; a
\* string is rewritten and parsed, and the catch answers the empty array
ParseResult(raw) ==
  IF ~IsString(raw) THEN Returned(raw)
  ELSE LET r == JsonParse(Cleaned(raw.val))
       IN IF r.ok THEN Returned(AsParsed(r.v)) ELSE Returned(JArr(<<>>))

\* line 601: msg.data && Array.isArray(msg.data) && msg.data.length > 0,
\* the condition under which the chart and the table of a message are shown
ShowsResult(d) == "t" \in DOMAIN d /\ d.t = "arr" /\ Len(d.a) > 0

\* ------------------------------------ chart analysis, ChartRenderer useMemo
Upper == <<"A", "B", "C", "D", "E", "F", "G", "H", "I", "J", "K", "L", "M", "N", "O", "P", "Q", "R", "S", "T", "U", "V", "W", "X", "Y", "Z">>
Lower == <<"a", "b", "c", "d", "e", "f", "g", "h", "i", "j", "k", "l", "m", "n", "o", "p", "q", "r", "s", "t", "u", "v", "w", "x", "y", "z">>

\* String.prototype.toLowerCase() on a text of ASCII characters
ToLowerCase(s) ==
  [k \in 1..Len(s) |->
     IF \E u \in 1..Len(Upper) : Upper[u] = s[k]
     THEN Lower[CHOOSE u \in 1..Len(Upper) : Upper[u] = s[k]]
     ELSE s[k]]

\* String.prototype.includes(word)
Includes(s, word) == \E i \in 1..(Len(s) + 1) : StartsAt(s, i, word)

\* the decimal text of a natural number
RECURSIVE NatText(_)
NatText(n) == IF n < 10 THEN <<Digits[n + 1]>> ELSE NatText(n \div 10) \o <<Digits[(n % 10) + 1]>>

\* Object.keys(item) with item[key] next to each key, for an object, an
\* array, a text, a number or a boolean (Object.keys(null) throws)
Entries(item) ==
  CASE item.t = "obj" -> item.m
    [] item.t = "arr" -> [i \in 1..Len(item.a) |-> [k |-> NatText(i - 1), v |-> item.a[i]]]
    [] item.t = "str" -> [i \in 1..Len(item.s) |-> [k |-> NatText(i - 1), v |-> JStr(<<item.s[i]>>)]]
    [] OTHER -> <<>>

\* the elements of seq at the positions I, in order (Array.prototype.filter)
Pick(seq, I) ==
  [n \in 1..Cardinality(I) |->
     seq[CHOOSE i \in I : Cardinality({j \in I : j < i}) = n - 1]]

\* typeof firstItem[key]
TypeOf(v) ==
  CASE v.t = "str" -> "string" [] v.t = "num" -> "number"
    [] v.t = "bool" -> "boolean" [] OTHER -> "object"

DateWords == {<<"d", "a", "t", "e">>, <<"t", "i", "m", "e">>, <<"y", "e", "a", "r">>}

\* lines 141-149 with the size rules tried before the name of the label
SuggestedTypeSizeFirst(labelKey, rows, values) ==
  IF rows <= 5 /\ values = 1 THEN "pie"
  ELSE IF rows > 20 THEN "line"
  ELSE IF \E w \in DateWords : Includes(ToLowerCase(labelKey), w) THEN "line"
  ELSE "bar"

\* lines 141-149
SuggestedType(labelKey, rows, values) ==
  IF \E w \in DateWords : Includes(ToLowerCase(labelKey), w) THEN "line"
  ELSE IF rows <= 5 /\ values = 1 THEN "pie"
  ELSE IF rows > 20 THEN "line"
  ELSE "bar"

NoAdvice == [kind |-> "null"]
Unrenderable == [kind |-> "throws"]

\* lines 130-152: the analysis of the data prop. The label is the first key
\* of the first row whose value is a string; when there is none, or when
\* that key is the empty text (which is falsy), it is the first key.
Analysis(data) ==
  IF ~ShowsResult(data) THEN NoAdvice
  ELSE IF data.a[1].t = "null" THEN Unrenderable
  ELSE LET entries == Entries(data.a[1])
           texts == Pick(entries, {i \in 1..Len(entries) : TypeOf(entries[i].v) = "string"})
           numbers == Pick(entries, {i \in 1..Len(entries) : TypeOf(entries[i].v) = "number"})
           labelKey == IF texts # <<>> /\ texts[1].k # <<>> THEN texts[1].k
                       ELSE entries[1].k
           valueKeys == [i \in 1..Len(numbers) |-> numbers[i].k]
       IN IF numbers = <<>> THEN NoAdvice
          ELSE [kind |-> "advice", labelKey |-> labelKey, valueKeys |-> valueKeys,
                suggestedType |-> SuggestedType(labelKey, Len(data.a), Len(valueKeys))]

\* ----------------------------------------- GET /api/health, index.ts 76-94
\* what the probe of the inference service (axios.get with a timeout of
\* 10 s) ends with: a response with a status code, a transport error, or no
\* response within the timeout
Probe(kind, code) == [kind |-> kind, code |-> code]
ProbeOutcomes ==
  {Probe("status", 200), Probe("status", 204), Probe("status", 503),
   Probe("error", 0), Probe("timeout", 0)}

\* axios rejects on a transport error, on a timeout and on a status outside
\* 2xx
AxiosRejects(p) == p.kind # "status" \/ p.code < 200 \/ p.code > 299

\* every 2xx answer of the probe counts as 'ok'
HealthAiServiceAny2xx(p) == IF AxiosRejects(p) THEN "down" ELSE "ok"

\* lines 81-92: the aiService field of the health response
HealthAiService(p) ==
  IF AxiosRejects(p) THEN "down"
  ELSE IF p.code = 200 THEN "ok" ELSE "error"

\* lines 78-93: the handler answers with res.json in the try and in the
\* catch, so with status 200 in both
HealthResponse(p) ==
  [http |-> 200, status |-> "ok", service |-> "backend",
   aiService |-> HealthAiService(p)]

\* ----------------------------- ClientGatekeeper and ServiceAwakener state
\* a health request of the awakener: sent, answered (by the backend, with
\* the probe it made, or by a gateway in front of a backend that is not up),
\* or rejected
SentFetch == [st |-> "sent", probe |-> Probe("none", 0), resp |-> [http |-> 0]]
RejectedFetch == [st |-> "rejected", probe |-> Probe("none", 0), resp |-> [http |-> 0]]
GatewayFetch == [st |-> "answered", probe |-> Probe("none", 0), resp |-> [http |-> 502]]
AnsweredFetch(p) == [st |-> "answered", probe |-> p, resp |-> HealthResponse(p)]

\* the gate after the first render: closed, both statuses pending, no
\* effect run yet (seen holds the statuses the last effect run closed over),
\* no interval, no request, no timer; okSeen records that a health response
\* with status 'ok' and aiService 'ok' has been received; env tells whether
\* the backend and the inference service may still fail
InitGate ==
  [isReady |-> FALSE, backendStatus |-> "pending", aiStatus |-> "pending",
   seen |-> <<"none", "none">>, interval |-> FALSE, fetches |-> <<>>,
   timers |-> 0, okSeen |-> FALSE, env |-> "any"]

\* ------------------------------------------------------- uploaded files
CsvPath == "uploads/2.csv"
NoFile == "ENOENT"
FileContents == {"a,b", "a,b,c"}
InitDisk == [p \in {CsvPath} |-> "a,b"]

\* ------------------------------------------------------------------- state
VARIABLES
  projects,   \* Project collection: project id -> document
  sessions,   \* ChatSession collection: session id -> document
  nextSid,    \* the id the next created ChatSession gets
  req,        \* per client slot: the POST /api/chat request being handled
  del,        \* the DELETE /api/projects/:id request being handled
  asks,       \* number of chat requests accepted so far
  ui,         \* the chat page (Home) of user u1: its React state
  norm,       \* the last call of parseResult: its argument and its outcome
  chart,      \* a ChartRenderer instance: its data prop and chart type
  adv,        \* the last evaluation of the chart analysis: its data and outcome
  gate,       \* ClientGatekeeper and ServiceAwakener with their health requests
  disk        \* the uploaded files of the backend: path -> content

vars == <<projects, sessions, nextSid, req, del, asks, ui, norm, chart, adv, gate, disk>>

NoConn == [type |-> "none"]
NoResp == [status |-> 0]
NoBody == [user |-> "u1", hasQuestion |-> FALSE, question |-> <<>>,
           sessionId |-> NoId, projectId |-> NoId]

\* a slot with no request; op is the route of the request ("chat" for
\* POST /api/chat, "history" for GET /api/history/:id); lookups, aiCalls,
\* writes and fault record what the handler did for the request (database
\* reads, inference calls, database writes, the failure that ended it), base
\* the number of messages of the session it loaded
IdleReq ==
  [pc |-> "idle", op |-> "none", body |-> NoBody, session |-> NoId, loaded |-> <<>>,
   bound |-> NoId, project |-> NoId, conn |-> NoConn, history |-> <<>>,
   sql |-> Undefined, data |-> DataUndefined, resp |-> NoResp,
   lookups |-> 0, aiCalls |-> 0, writes |-> 0, fault |-> "none", base |-> 0]

\* no request of loadHistoryItem pending
NoHist == [st |-> "none", id |-> NoId, projectId |-> NoId, resp |-> NoResp]

\* the page after mount: no session, no project selected, no message, no
\* request pending; last records how the last sendMessage ended (the status
\* it saw, 0 for a rejected fetch, and the text it showed); hist is
\* the request of loadHistoryItem; fresh tells that startNewQuery has run
\* and that since then no question was sent and no session loaded
InitUi ==
  [sessionId |-> NoId, selectedProjectId |-> NoId, messages |-> <<>>,
   loading |-> FALSE, fetch |-> "none",
   last |-> [status |-> -1, content |-> "none"],
   hist |-> NoHist, fresh |-> FALSE]

\* a session of user u1 on project 1 holding k question/answer pairs, as k
\* successful asks leave it
PairAt(i) ==
  IF i % 2 = 1
  THEN <<UserMessage(Q1), AiMessage(SqlText, DataObjectSql)>>
  ELSE <<UserMessage(Q2), AiMessage(Undefined, DataString)>>

RECURSIVE Transcript(_)
Transcript(k) == IF k = 0 THEN <<>> ELSE Transcript(k - 1) \o PairAt(k)

SessionDoc(user, project, question, messages) ==
  [userId |-> user, projectId |-> project, title |-> Title(question),
   messages |-> messages]

\* numbers of pairs of the session the database may hold at the start
InitPairs == {0, 6}

Init ==
  /\ projects = ProjectDocs
  /\ \E k \in InitPairs :
       /\ sessions = [s \in (IF k = 0 THEN {} ELSE {1}) |->
                        SessionDoc("u1", 1, Q1, Transcript(k))]
       /\ nextSid = IF k = 0 THEN 1 ELSE 2
  /\ req = [r \in Slots |-> IdleReq]
  /\ del = [pc |-> "idle", project |-> NoId]
  /\ asks = 0
  /\ ui = InitUi
  /\ norm = [applied |-> FALSE]
  /\ chart = [mounted |-> FALSE]
  /\ adv = [applied |-> FALSE]
  /\ gate = InitGate
  /\ disk = InitDisk

SessionIds == DOMAIN sessions

\* -------------------------------------------------- POST /api/chat, by steps
\* res.status(code).json({error}) and return
Done(rq, resp, fault) ==
  [IdleReq EXCEPT !.pc = "done", !.op = rq.op, !.resp = resp, !.fault = fault,
                  !.lookups = rq.lookups, !.aiCalls = rq.aiCalls,
                  !.writes = rq.writes, !.base = rq.base]

Fail(rq, code, fault) == Done(rq, [status |-> code], fault)

\* fs.readFileSync(path, 'utf8'): the content, or "ENOENT" for a throw
ReadFileSync(path) == IF path \in DOMAIN disk THEN disk[path] ELSE NoFile

\* lines 296-308: the descriptor handed to the inference service
SentConnection(proj) ==
  AttachCsv(DbConnection(proj), proj,
            IF proj.type = "csv" THEN ReadFileSync(proj.csvPath) ELSE NoFile)

\* lines 294-322, run once a project is resolved: build the connection
\* descriptor, compute the history from the loaded session, call the
\* inference service
CallInference(rq, pid) ==
  [rq EXCEPT !.pc = "awaitAI",
             !.project = pid,
             !.conn = SentConnection(projects[pid]),
             !.history = IF rq.session # NoId THEN ReplayWindow(rq.loaded) ELSE <<>>,
             !.aiCalls = @ + 1]

\* lines 286-292 once the session branch is over: without a project, look
\* the projectId up, or answer 404 when there is none
AfterSession(rq) ==
  IF rq.body.projectId # NoId
  THEN [rq EXCEPT !.pc = "findProject"]
  ELSE Fail(rq, 404, "notfound")

\* lines 264-279: a request arrives (the slot's previous response is
\* forgotten), is validated, and the first lookup is issued; a rejected
\* request keeps its body next to the response
Arrive(r, body) ==
  /\ req[r].pc \in {"idle", "done"}
  /\ IF QuestionMissing(body)
     THEN /\ req' = [req EXCEPT ![r] =
                       [Fail(IdleReq, 400, "question") EXCEPT !.body = body,
                                                              !.op = "chat"]]
          /\ asks' = asks
     ELSE IF IdsMissing(body)
     THEN /\ req' = [req EXCEPT ![r] =
                       [Fail(IdleReq, 400, "ids") EXCEPT !.body = body,
                                                         !.op = "chat"]]
          /\ asks' = asks
     ELSE /\ asks < MaxAsks
          /\ req' = [req EXCEPT ![r] =
                       [IdleReq EXCEPT !.body = body, !.op = "chat",
                                       !.pc = IF body.sessionId # NoId
                                              THEN "findSession" ELSE "findProject"]]
          /\ asks' = asks + 1

\* POST /api/chat sent by a client other than the chat page
Ask(r, body) ==
  /\ Arrive(r, body)
  /\ UNCHANGED <<gate, disk, norm, chart, adv, projects, sessions, nextSid, del, ui>>

\* ChatSession.findOne({_id: sid}): the owner is not part of the query
AnySession(sid, user) == sid \in SessionIds

\* ChatSession.findOne({_id: sid, userId: user}) finds a document
OwnedSession(sid, user) == sid \in SessionIds /\ sessions[sid].userId = user

\* Project.findOne({_id: pid}): the owner is not part of the query
AnyProject(pid, user) == pid \in DOMAIN projects

\* Project.findOne({_id: pid, userId: user}) finds a document
OwnedProject(pid, user) == pid \in DOMAIN projects /\ projects[pid].userId = user

\* the user message stored without the answer
NewMessagesUserOnly(userMessage, aiMessage) == <<userMessage>>

\* session.messages.push(userMessage, aiMessage); messages: [userMessage, aiMessage]
NewMessages(userMessage, aiMessage) == <<userMessage, aiMessage>>

\* the stored transcript is cut to the replay window before the push
PushWindow(messages, items) == SliceLast(messages, HistoryWindow) \o items

\* lines 328-331: session.messages.push(...) and save() of a loaded
\* document: a $push of the new items onto the stored array
Push(messages, items) == messages \o items

\* save() writes the array the handler holds: the loaded messages and the
\* new items
SaveWhole(stored, loaded, items) == loaded \o items

\* line 338 for a loaded document: save() sends what changed since the
\* load, the pushed items, and leaves the rest of the stored array alone
SaveLoaded(stored, loaded, items) == Push(stored, items)

\* line 280: ChatSession.findOne({_id: sessionId, userId})
FindSession(r) ==
  /\ req[r].pc = "findSession"
  /\ LET rq == [req[r] EXCEPT !.lookups = @ + 1]
         sid == rq.body.sessionId
         found == OwnedSession(sid, rq.body.user)
     IN req' = [req EXCEPT ![r] =
                  IF found
                  THEN [rq EXCEPT !.pc = "populate", !.session = sid,
                                  !.loaded = sessions[sid].messages,
                                  !.base = Len(sessions[sid].messages),
                                  !.bound = sessions[sid].projectId]
                  ELSE AfterSession(rq)]
  /\ UNCHANGED <<gate, disk, norm, chart, adv, projects, sessions, nextSid, del, asks, ui>>

\* line 280: .populate('projectId'), a second query; a reference to a
\* missing project populates as null
Populate(r) ==
  /\ req[r].pc = "populate"
  /\ LET rq == [req[r] EXCEPT !.lookups = @ + 1]
     IN req' = [req EXCEPT ![r] =
                  IF rq.bound \in DOMAIN projects
                  THEN CallInference(rq, rq.bound)
                  ELSE AfterSession(rq)]
  /\ UNCHANGED <<gate, disk, norm, chart, adv, projects, sessions, nextSid, del, asks, ui>>

\* line 287: Project.findOne({_id: projectId, userId})
FindProject(r) ==
  /\ req[r].pc = "findProject"
  /\ LET rq == [req[r] EXCEPT !.lookups = @ + 1]
         pid == rq.body.projectId
         found == OwnedProject(pid, rq.body.user)
     IN req' = [req EXCEPT ![r] =
                  IF found THEN CallInference(rq, pid)
                  ELSE Fail(rq, 404, "notfound")]
  /\ UNCHANGED <<gate, disk, norm, chart, adv, projects, sessions, nextSid, del, asks, ui>>

\* lines 323-330/338: the inference service answered 2xx with {sql, data};
\* the messages are built and the save is issued
AIRespond(r, sql, data) ==
  /\ req[r].pc = "awaitAI"
  /\ req' = [req EXCEPT ![r] =
               IF DataSqlThrows(data)
               THEN Fail(req[r], 500, "payload")
               ELSE [req[r] EXCEPT !.pc = "save", !.sql = sql, !.data = data]]
  /\ UNCHANGED <<gate, disk, norm, chart, adv, projects, sessions, nextSid, del, asks, ui>>

\* line 318 rejects: transport error or non-2xx status
AIFail(r) ==
  /\ req[r].pc = "awaitAI"
  /\ req' = [req EXCEPT ![r] = Fail(req[r], 500, "ai")]
  /\ UNCHANGED <<gate, disk, norm, chart, adv, projects, sessions, nextSid, del, asks, ui>>

\* lines 328-346: session.save() takes effect, then the 200 response.
\* Saving a loaded document sends the pushed messages as one $push on the
\* stored document and fails when that document is gone; saving a new
\* document inserts it.
Save(r) ==
  /\ req[r].pc = "save"
  /\ LET rq == req[r]
         userMessage == UserMessage(rq.body.question)
         aiMessage == AiMessage(rq.sql, rq.data)
         ok(sid) == Done([rq EXCEPT !.writes = @ + 1],
                         [status |-> 200, sessionId |-> sid,
                          messages |-> NewMessages(userMessage, aiMessage),
                          sql |-> rq.sql, result |-> rq.data], "none")
     IN IF rq.session # NoId
        THEN IF rq.session \in SessionIds
             THEN /\ sessions' = [sessions EXCEPT ![rq.session].messages =
                                    SaveLoaded(@, rq.loaded,
                                               NewMessages(userMessage, aiMessage))]
                  /\ req' = [req EXCEPT ![r] = ok(rq.session)]
                  /\ nextSid' = nextSid
             ELSE /\ req' = [req EXCEPT ![r] = Fail(rq, 500, "save")]
                  /\ UNCHANGED <<gate, disk, norm, chart, adv, sessions, nextSid>>
        ELSE /\ sessions' = [s \in SessionIds \cup {nextSid} |->
                                IF s = nextSid
                                THEN SessionDoc(rq.body.user, rq.project,
                                                rq.body.question,
                                                NewMessages(userMessage, aiMessage))
                                ELSE sessions[s]]
             /\ nextSid' = nextSid + 1
             /\ req' = [req EXCEPT ![r] = ok(nextSid)]
  /\ UNCHANGED <<gate, disk, norm, chart, adv, projects, del, asks, ui>>

\* a failed save that is logged and ignored: the 200 response still goes out
DbFailSwallowed(r) ==
  /\ req[r].pc \in {"findSession", "populate", "findProject", "save"}
  /\ req' = [req EXCEPT ![r] =
               IF req[r].pc = "save"
               THEN Done(req[r], [status |-> 200, sessionId |-> req[r].session,
                                  messages |-> NewMessages(UserMessage(req[r].body.question),
                                                           AiMessage(req[r].sql, req[r].data)),
                                  sql |-> req[r].sql, result |-> req[r].data], "none")
               ELSE Fail(req[r], 500, "read")]
  /\ UNCHANGED <<gate, disk, norm, chart, adv, projects, sessions, nextSid, del, asks, ui>>

\* a database operation of the handler rejects: the catch of line 347
DbFail(r) ==
  /\ req[r].pc \in {"findSession", "populate", "findProject", "save"}
  /\ req' = [req EXCEPT ![r] =
               Fail(req[r], 500, IF req[r].pc = "save" THEN "save" ELSE "read")]
  /\ UNCHANGED <<gate, disk, norm, chart, adv, projects, sessions, nextSid, del, asks, ui>>

\* ------------------------------------------------ GET /api/history/:id
\* lines 254-262: the session of that id and of the requesting user is
\* returned whole; 404 when the query finds none
HistoryResponse(u, sid) ==
  IF OwnedSession(sid, u)
  THEN [status |-> 200, session |-> sessions[sid]]
  ELSE [status |-> 404]

GetHistory(r, u, sid) ==
  /\ req[r].pc \in {"idle", "done"}
  /\ req' = [req EXCEPT ![r] =
               [IdleReq EXCEPT
                  !.pc = "done", !.op = "history",
                  !.body = [NoBody EXCEPT !.user = u, !.sessionId = sid],
                  !.lookups = 1,
                  !.fault = IF OwnedSession(sid, u) THEN "none" ELSE "notfound",
                  !.resp = HistoryResponse(u, sid)]]
  /\ UNCHANGED <<gate, disk, norm, chart, adv, projects, sessions, nextSid, del, asks, ui>>

\* line 256 rejects: the catch of line 259 answers 500
GetHistoryFail(r, u, sid) ==
  /\ req[r].pc \in {"idle", "done"}
  /\ req' = [req EXCEPT ![r] =
               [IdleReq EXCEPT
                  !.pc = "done", !.op = "history",
                  !.body = [NoBody EXCEPT !.user = u, !.sessionId = sid],
                  !.fault = "read", !.resp = [status |-> 500]]]
  /\ UNCHANGED <<gate, disk, norm, chart, adv, projects, sessions, nextSid, del, asks, ui>>

\* ------------------------------------- DELETE /api/projects/:id, by steps
\* line 180: Project.findOneAndDelete({_id, userId}); 404 when none matches
DeleteProject(u, pid) ==
  /\ del.pc = "idle"
  /\ IF pid \in DOMAIN projects /\ projects[pid].userId = u
     THEN /\ projects' = [p \in DOMAIN projects \ {pid} |-> projects[p]]
          /\ del' = [pc |-> "cascade", project |-> pid]
     ELSE UNCHANGED <<gate, disk, norm, chart, adv, projects, del>>
  /\ UNCHANGED <<gate, disk, norm, chart, adv, sessions, nextSid, req, asks, ui>>

\* line 183: ChatSession.deleteMany({projectId})
DeleteSessions ==
  /\ del.pc = "cascade"
  /\ sessions' = [s \in {t \in SessionIds : sessions[t].projectId # del.project} |->
                    sessions[s]]
  /\ del' = [pc |-> "idle", project |-> NoId]
  /\ UNCHANGED <<gate, disk, norm, chart, adv, projects, nextSid, req, asks, ui>>

\* line 183 rejects: the catch of line 186 answers 500
DeleteSessionsFail ==
  /\ del.pc = "cascade"
  /\ del' = [pc |-> "idle", project |-> NoId]
  /\ UNCHANGED <<gate, disk, norm, chart, adv, projects, sessions, nextSid, req, asks, ui>>

\* ------------------------------------------- the chat page, page.tsx Home
FailedText == "Failed to connect to backend."

\* a field of the JSON body of a response; an error body has none of them
RespSessionId(resp) == IF "sessionId" \in DOMAIN resp THEN resp.sessionId ELSE NoId
RespSql(resp) == IF "sql" \in DOMAIN resp THEN resp.sql ELSE Undefined
RespResult(resp) == IF "result" \in DOMAIN resp THEN resp.result ELSE DataUndefined

\* parseResult on each result payload the page can receive or load (the
\* payloads of AiAnswers; undefined for a message or a body without
\* result), evaluated once
PagePayloads == {a.data : a \in AiAnswers} \cup {DataUndefined}
ParseResultOf == [raw \in PagePayloads |-> ParseResult(raw)]

\* the data of a message of the page; a message without the field reads as
\* undefined
DataOf(msg) == IF "data" \in DOMAIN msg THEN msg.data ELSE DataUndefined

\* lines 192-213: sendMessage up to the fetch; it returns at once on an
\* empty input, while loading or without a selected project. The request
\* reaches the backend in the same step.
SendMessage(input) ==
  /\ input # <<>> /\ ~ui.loading /\ ui.selectedProjectId # NoId
  /\ ui' = [ui EXCEPT !.messages = Append(@, [role |-> "user", content |-> input]),
                      !.loading = TRUE, !.fetch = "pending", !.fresh = FALSE]
  /\ asks < MaxAsks
  /\ Arrive("ui", [user |-> "u1", hasQuestion |-> TRUE, question |-> input,
                   sessionId |-> ui.sessionId, projectId |-> ui.selectedProjectId])
  /\ UNCHANGED <<gate, disk, norm, chart, adv, projects, sessions, nextSid, del>>

\* lines 215-230, 235: the fetch resolved with the backend's response,
\* whatever its status
ReceiveResponse ==
  /\ ui.fetch = "pending"
  /\ req["ui"].pc = "done"
  /\ LET data == req["ui"].resp
         content == IF Truthy(RespSql(data)) THEN SuccessText ELSE NoQueryText
         aiMsg == [role |-> "ai", content |-> content, sql |-> RespSql(data),
                   data |-> ParseResultOf[RespResult(data)].v]
     IN ui' = [ui EXCEPT !.sessionId = IF RespSessionId(data) # NoId
                                       THEN RespSessionId(data) ELSE @,
                         !.messages = Append(@, aiMsg),
                         !.loading = FALSE, !.fetch = "none",
                         !.last = [status |-> data.status, content |-> content]]
  /\ UNCHANGED <<gate, disk, norm, chart, adv, projects, sessions, nextSid, req, del, asks>>

\* lines 231-235: the fetch rejected (the connection failed or was cut
\* before a response arrived)
FetchReject ==
  /\ ui.fetch = "pending"
  /\ ui' = [ui EXCEPT !.messages = Append(@, [role |-> "ai", content |-> FailedText]),
                      !.loading = FALSE, !.fetch = "none",
                      !.last = [status |-> 0, content |-> FailedText]]
  /\ UNCHANGED <<gate, disk, norm, chart, adv, projects, sessions, nextSid, req, del, asks>>

\* lines 269-273
StartNewQuery ==
  /\ ui' = [ui EXCEPT !.messages = <<>>, !.sessionId = NoId, !.fresh = TRUE]
  /\ UNCHANGED <<gate, disk, norm, chart, adv, projects, sessions, nextSid, req, del, asks>>

\* line 429: a click on a project of the list
SelectProject(p) ==
  /\ ui' = [ui EXCEPT !.selectedProjectId = p, !.messages = <<>>, !.sessionId = NoId,
                      !.fresh = TRUE]
  /\ UNCHANGED <<gate, disk, norm, chart, adv, projects, sessions, nextSid, req, del, asks>>

\* the stored result is shown as it is
LoadedMessageRaw(msg) ==
  [role |-> msg.role, content |-> msg.content,
   sql |-> IF "sql" \in DOMAIN msg THEN msg.sql ELSE Undefined,
   data |-> IF "result" \in DOMAIN msg THEN msg.result ELSE DataUndefined]

\* lines 255-261: a stored message as the page shows it
LoadedMessage(msg) ==
  [role |-> msg.role, content |-> msg.content,
   sql |-> IF "sql" \in DOMAIN msg THEN msg.sql ELSE Undefined,
   data |-> ParseResultOf[IF "result" \in DOMAIN msg THEN msg.result
                         ELSE DataUndefined].v]

\* lines 239-245: a click on an item of the history list (the session id
\* and, when the project of the session still exists, its populated
\* project); GET /api/history/:id is answered in the same step, with the
\* session as it is stored now or with 500, or the fetch fails (status 0)
LoadHistoryItem(s, resp) ==
  /\ ui.hist.st = "none"
  /\ OwnedSession(s, "u1")
  /\ ui' = [ui EXCEPT !.hist = [st |-> "pending", id |-> s,
                                projectId |-> IF sessions[s].projectId \in DOMAIN projects
                                              THEN sessions[s].projectId ELSE NoId,
                                resp |-> resp]]
  /\ UNCHANGED <<gate, disk, norm, chart, adv, projects, sessions, nextSid, req, del, asks>>

\* lines 245-266: the response of GET /api/history/:id has arrived; a body
\* with messages replaces the session id, the selected project (when the
\* item has one) and the messages of the page; an error body has no
\* messages, and a rejected fetch is logged
ReceiveHistory ==
  /\ ui.hist.st = "pending"
  /\ LET data == ui.hist.resp
     IN IF data.status = 200
        THEN ui' = [ui EXCEPT !.sessionId = ui.hist.id,
                              !.selectedProjectId = IF ui.hist.projectId # NoId
                                                    THEN ui.hist.projectId ELSE @,
                              !.messages = [i \in 1..Len(data.session.messages) |->
                                              LoadedMessage(data.session.messages[i])],
                              !.hist = NoHist, !.fresh = FALSE]
        ELSE ui' = [ui EXCEPT !.hist = NoHist]
  /\ UNCHANGED <<gate, disk, norm, chart, adv, projects, sessions, nextSid, req, del, asks>>

\* ------------------------------------------------------------ specification
\* the requests a client may send: a question with no id, an id in use or
\* an unknown id for the session and for the project; or no question (left
\* out, or empty) with and without ids
Bodies ==
  [user : Users, hasQuestion : {TRUE}, question : Questions,
   sessionId : {NoId} \cup SessionIds \cup {StaleSid},
   projectId : {NoId} \cup ProjectIds]
  \cup
  [user : {"u1"}, hasQuestion : BOOLEAN, question : {<<>>},
   sessionId : {NoId, 1}, projectId : {NoId, 1}]

Next ==
  \/ \E body \in Bodies : Ask("api", body)
  \/ FindSession("api")
  \/ Populate("api")
  \/ FindProject("api")
  \/ \E a \in AiAnswers : AIRespond("api", a.sql, a.data)
  \/ AIFail("api")
  \/ Save("api")
  \/ DbFail("api")
  \/ \E u \in Users, sid \in SessionIds \cup {StaleSid} : GetHistory("api", u, sid)
  \/ \E u \in Users, sid \in SessionIds \cup {StaleSid} : GetHistoryFail("api", u, sid)
  \/ \E u \in Users, pid \in ProjectIds : DeleteProject(u, pid)
  \/ DeleteSessions
  \/ DeleteSessionsFail

Spec == Init /\ [][Next]_vars

\* the chat page as the only client
NextUi ==
  \/ \E input \in Questions : SendMessage(input)
  \/ ReceiveResponse
  \/ FetchReject
  \/ StartNewQuery
  \/ \E p \in ProjectIds : SelectProject(p)
  \/ FindSession("ui")
  \/ Populate("ui")
  \/ FindProject("ui")
  \/ \E a \in AiAnswers : AIRespond("ui", a.sql, a.data)
  \/ AIFail("ui")
  \/ Save("ui")
  \/ DbFail("ui")

SpecUi == Init /\ [][NextUi]_vars

\* the chat page with its history list, the backend and the inference
\* service answering every request
PageAnswers ==
  {[sql |-> SqlText, data |-> DataObjectSql], [sql |-> Undefined, data |-> DataString]}

NextPage ==
  \/ \E input \in Questions : SendMessage(input)
  \/ ReceiveResponse
  \/ StartNewQuery
  \/ \E p \in ProjectIds : SelectProject(p)
  \/ \E s \in SessionIds : LoadHistoryItem(s, HistoryResponse("u1", s))
  \/ \E s \in SessionIds, code \in {0, 500} : LoadHistoryItem(s, [status |-> code])
  \/ ReceiveHistory
  \/ FindSession("ui")
  \/ Populate("ui")
  \/ FindProject("ui")
  \/ \E a \in PageAnswers : AIRespond("ui", a.sql, a.data)
  \/ Save("ui")

SpecPage == Init /\ [][NextPage]_vars

\* asks of one user with questions around the title limit, every one of
\* them answered with a query
QuestionOfLen(n) == [i \in 1..n |-> "q"]
LongQuestions ==
  {QuestionOfLen(n) : n \in {1} \cup ((TitleMax - 1)..(TitleMax + MaxExtra))}

TitleBodies ==
  [user : {"u1"}, hasQuestion : {TRUE}, question : LongQuestions,
   sessionId : {NoId} \cup SessionIds, projectId : {NoId, 1}]

NextTitle ==
  \/ \E body \in TitleBodies : Ask("api", body)
  \/ FindSession("api")
  \/ Populate("api")
  \/ FindProject("api")
  \/ AIRespond("api", SqlText, DataString)
  \/ Save("api")

SpecTitle == Init /\ [][NextTitle]_vars

\* the same, where the inference service may stay silent for ever but every
\* database operation of the handlers completes
DbStep(r) == FindSession(r) \/ Populate(r) \/ FindProject(r) \/ Save(r) \/ DbFail(r)

FairSpec == Spec /\ WF_vars(DbStep("api"))

\* ----------------------------------- the result payloads parseResult gets
\* the pieces generated payload texts are made of
Tokens ==
  {<<"[">>,
   <<"]">>,
   <<"(">>,
   <<")">>,
   <<",">>,
   <<" ">>,
   <<"1">>,
   <<"'", "a", "'">>,
   <<"'">>,
   <<"N", "o", "n", "e">>,
   <<"D", "e", "c", "i", "m", "a", "l", "(", "'", "3", ".", "5", "0", "'", ")">>,
   <<"d", "a", "t", "e", "t", "i", "m", "e", ".", "d", "a", "t", "e", "t", "i", "m", "e", "(", "2", "0", "2", "3", ",", " ", "5", ",", " ", "1", ")">>,
   <<"{">>,
   <<"}">>,
   <<":">>}

RECURSIVE Flatten(_)
Flatten(ts) == IF ts = <<>> THEN <<>> ELSE ts[1] \o Flatten(Tail(ts))

GeneratedTexts == {Flatten(ts) : ts \in UNION {[1..n -> Tokens] : n \in 0..MaxTokens}}

\* a datetime wrapper with the first n of six arguments, and a row holding it
DateArgs == <<<<"2", "0", "2", "3">>, <<"5">>, <<"1">>, <<"1", "0">>, <<"3", "0">>, <<"0">>>>
DatetimeCall(n, sep) == DatetimeOpen \o Join(SubSeq(DateArgs, 1, n), sep) \o <<")">>
DateRow(n, sep) == <<"[", "(", "7", ",", " ">> \o DatetimeCall(n, sep) \o <<")", "]">>
DateTexts == {DateRow(n, sep) : n \in 1..6, sep \in {<<",">>, <<",", " ">>, <<" ", ",", " ", " ">>}}

\* the row of the Python driver with a number, a text, None and a Decimal
MixedRow == <<"[", "(", "1", ",", " ", "'", "a", "'", ",", " ", "N", "o", "n", "e", ",", " ", "D", "e", "c", "i", "m", "a", "l", "(", "'", "3", ".", "5", "0", "'", ")", ")", "]">>

\* texts that denote a value that is no array
ScalarTexts ==
  {<<"5">>,
   <<"-", "2", ".", "5", "0">>,
   <<"n", "u", "l", "l">>,
   <<"N", "o", "n", "e">>,
   <<"'", "a", "'">>,
   <<"{", "'", "a", "'", ":", " ", "1", "}">>,
   <<"t", "r", "u", "e">>,
   <<>>,
   <<" ", "[", "1", "]", " ">>}

\* what the result field of a chat response may hold: a text, nothing, or
\* a JSON value that is not a string
Payloads ==
  {[kind |-> "string", val |-> v] :
     v \in GeneratedTexts \cup DateTexts \cup ScalarTexts \cup {MixedRow, DataString.val}}
  \cup {DataUndefined, DataObjectSql, JNull, JNum(FALSE, 1, <<>>, 0),
        JArr(<<>>), JArr(<<JArr(<<JNum(FALSE, 1, <<>>, 0), JStr(<<"a">>)>>)>>)}

\* a result payload has reached the page
InitNormalize ==
  /\ projects = ProjectDocs /\ sessions = <<>> /\ nextSid = 1
  /\ req = [r \in Slots |-> IdleReq]
  /\ del = [pc |-> "idle", project |-> NoId]
  /\ asks = 0 /\ ui = InitUi /\ chart = [mounted |-> FALSE] /\ adv = [applied |-> FALSE]
  /\ gate = InitGate /\ disk = InitDisk
  /\ \E raw \in Payloads : norm = [applied |-> FALSE, raw |-> raw]

\* parseResult(data.result), lines 228 and 260
Normalize ==
  /\ ~norm.applied
  /\ norm' = [applied |-> TRUE, raw |-> norm.raw, res |-> ParseResult(norm.raw)]
  /\ UNCHANGED <<gate, disk, projects, sessions, nextSid, req, del, asks, ui, chart, adv>>

NextNormalize == Normalize

SpecNormalize == InitNormalize /\ [][NextNormalize]_vars

\* --------------------------------------------- the data a chart is given
\* column names: plain, holding one of the three words in some case, empty
ColumnNames ==
  {<<"n", "a", "m", "e">>, <<"O", "r", "d", "e", "r", "D", "a", "t", "e">>, <<"u", "p", "t", "i", "m", "e">>, <<"Y", "E", "A", "R">>, <<>>}

\* a text, a number, null
CellValues == {JStr(<<"x">>), JNum(FALSE, 4, <<>>, 0), JNull}
Cells == [k : ColumnNames, v : CellValues]

\* named rows (objects whose keys differ) and positional rows (arrays) of up
\* to MaxCols columns
NamedRows ==
  {JObj(m) : m \in {c \in UNION {[1..n -> Cells] : n \in 1..MaxCols} :
                      \A i, j \in DOMAIN c : c[i].k = c[j].k => i = j}}
PositionalRows == {JArr(c) : c \in UNION {[1..n -> CellValues] : n \in 1..MaxCols}}

\* numbers of rows on both sides of the limits of lines 144 and 146 (5, 20)
RowCounts == {1, 3, 5, 6, 20, 21, 25}

\* a row whose cells have other types than the ones of any first row
OtherRow ==
  JObj(<<[k |-> <<"n", "a", "m", "e">>, v |-> JNum(FALSE, 9, <<>>, 0)],
         [k |-> <<"z">>, v |-> JStr(<<"y">>)]>>)

\* n rows: first, then rows that repeat it or rows of another shape
MakeData(first, same, n) ==
  JArr([i \in 1..n |-> IF i = 1 \/ same THEN first ELSE OtherRow])

AdviseData ==
  {MakeData(first, same, n) :
     first \in NamedRows \cup PositionalRows, same \in BOOLEAN, n \in RowCounts}
  \cup {JArr(<<>>), JArr(<<JNull>>), JArr(<<JNum(FALSE, 4, <<>>, 0)>>), JArr(<<JStr(<<"x", "y">>)>>)}

\* a ChartRenderer is about to analyse its data
InitAdvise ==
  /\ projects = ProjectDocs /\ sessions = <<>> /\ nextSid = 1
  /\ req = [r \in Slots |-> IdleReq]
  /\ del = [pc |-> "idle", project |-> NoId]
  /\ asks = 0 /\ ui = InitUi /\ chart = [mounted |-> FALSE]
  /\ gate = InitGate /\ disk = InitDisk
  /\ norm = [applied |-> FALSE]
  /\ \E data \in AdviseData : adv = [applied |-> FALSE, data |-> data]

\* lines 130-152: the useMemo callback runs
Advise ==
  /\ ~adv.applied
  /\ adv' = [applied |-> TRUE, data |-> adv.data, res |-> Analysis(adv.data)]
  /\ UNCHANGED <<gate, disk, projects, sessions, nextSid, req, del, asks, ui, norm, chart>>

NextAdvise == Advise

SpecAdvise == InitAdvise /\ [][NextAdvise]_vars

\* ------------------------------------------------ the ChartRenderer component
\* the first rows of the data one chart instance is given in turn
ChartRows ==
  {JObj(<<[k |-> <<"n", "a", "m", "e">>, v |-> JStr(<<"x">>)], [k |-> <<"s", "a", "l", "e", "s">>, v |-> JNum(FALSE, 4, <<>>, 0)]>>),
   JObj(<<[k |-> <<"n", "a", "m", "e">>, v |-> JStr(<<"x">>)], [k |-> <<"s", "a", "l", "e", "s">>, v |-> JNum(FALSE, 4, <<>>, 0)],
          [k |-> <<"q", "t", "y">>, v |-> JNum(FALSE, 4, <<>>, 0)]>>),
   JObj(<<[k |-> <<"O", "r", "d", "e", "r", "D", "a", "t", "e">>, v |-> JStr(<<"x">>)], [k |-> <<"s", "a", "l", "e", "s">>, v |-> JNum(FALSE, 4, <<>>, 0)]>>),
   JObj(<<[k |-> <<"n", "a", "m", "e">>, v |-> JStr(<<"x">>)]>>),
   JArr(<<JNum(FALSE, 4, <<>>, 0), JStr(<<"x">>)>>),
   JArr(<<JNum(FALSE, 4, <<>>, 0), JNum(FALSE, 4, <<>>, 0)>>)}

ChartData == {MakeData(first, TRUE, n) : first \in ChartRows, n \in {3, 6, 25}}

ChartTypes == {"bar", "line", "pie"}

\* line 601 and line 127: the page renders a chart for a result that is a
\* non-empty array; a new instance starts with the bar chart, and its
\* effect is due after the first render
Mount(data) ==
  /\ ~chart.mounted /\ ShowsResult(data)
  /\ chart' = [mounted |-> TRUE, data |-> data, chartType |-> "bar", effect |-> TRUE]
  /\ UNCHANGED <<gate, disk, projects, sessions, nextSid, req, del, asks, ui, norm, adv>>

\* the message at the place of the instance is replaced (its key, the index
\* of the message in a loaded session, stays): the instance is rendered with
\* the new data and the chart type it holds; analysis is computed anew, so
\* the effect of line 155 is due
SetData(data) ==
  /\ chart.mounted /\ ShowsResult(data) /\ data # chart.data
  /\ chart' = [chart EXCEPT !.data = data, !.effect = TRUE]
  /\ UNCHANGED <<gate, disk, projects, sessions, nextSid, req, del, asks, ui, norm, adv>>

\* lines 155-160: the effect runs after the render that changed analysis
RunEffect ==
  /\ chart.mounted /\ chart.effect
  /\ chart' = [chart EXCEPT
                 !.effect = FALSE,
                 !.chartType = IF Analysis(chart.data).kind = "advice"
                               THEN Analysis(chart.data).suggestedType ELSE @]
  /\ UNCHANGED <<gate, disk, projects, sessions, nextSid, req, del, asks, ui, norm, adv>>

\* lines 255-277: a click on one of the three buttons, which exist when the
\* analysis gave advice (line 162); the pie button is disabled with more
\* than one value column. Pending effects are flushed before the update of a
\* click is rendered, so a click is taken once the effect has run.
SetChartType(type) ==
  /\ chart.mounted /\ ~chart.effect
  /\ Analysis(chart.data).kind = "advice"
  /\ type = "pie" => Len(Analysis(chart.data).valueKeys) <= 1
  /\ chart' = [chart EXCEPT !.chartType = type]
  /\ UNCHANGED <<gate, disk, projects, sessions, nextSid, req, del, asks, ui, norm, adv>>

\* the message list is emptied or replaced by a shorter one
Unmount ==
  /\ chart.mounted
  /\ chart' = [mounted |-> FALSE]
  /\ UNCHANGED <<gate, disk, projects, sessions, nextSid, req, del, asks, ui, norm, adv>>

NextChart ==
  \/ \E data \in ChartData : Mount(data)
  \/ \E data \in ChartData : SetData(data)
  \/ RunEffect
  \/ \E type \in ChartTypes : SetChartType(type)
  \/ Unmount

SpecChart == Init /\ [][NextChart]_vars

\* ------------------- the gate: ClientGatekeeper.tsx, ServiceAwakener
GateOnly ==
  UNCHANGED <<projects, sessions, nextSid, req, del, asks, ui, norm, chart, adv, disk>>

Drop(seq, i) == SubSeq(seq, 1, i - 1) \o SubSeq(seq, i + 1, Len(seq))

\* line 319: checkHealth up to its fetch
CheckHealth(g) == [g EXCEPT !.fetches = Append(@, SentFetch)]

\* lines 316-353: the effect runs after the first render and after every
\* render in which a status changed: the interval of the previous run is
\* cleared, a new one is set and checkHealth is called at once
AwakenerEffect ==
  /\ ~gate.isReady
  /\ <<gate.backendStatus, gate.aiStatus>> # gate.seen
  /\ Len(gate.fetches) < MaxFetches
  /\ gate' = CheckHealth([gate EXCEPT !.seen = <<gate.backendStatus, gate.aiStatus>>,
                                      !.interval = TRUE])
  /\ GateOnly

\* the interval is given up as soon as the backend has answered
IntervalOverOnAnswer(backendStatus, aiStatus) == backendStatus # "pending"

\* line 343: the condition under which a tick clears the interval
IntervalOver(backendStatus, aiStatus) == backendStatus = "ok" /\ aiStatus = "ok"

\* lines 342-348: a tick of the interval; it reads the statuses of the
\* render its effect ran in
IntervalTick ==
  /\ gate.interval
  /\ IF IntervalOver(gate.seen[1], gate.seen[2])
     THEN gate' = [gate EXCEPT !.interval = FALSE]
     ELSE /\ Len(gate.fetches) < MaxFetches
          /\ gate' = CheckHealth(gate)
  /\ GateOnly

\* index.ts lines 76-94: the backend handles a health request, probes the
\* inference service and answers
Health(i, p) ==
  /\ i \in 1..Len(gate.fetches)
  /\ gate.fetches[i].st = "sent"
  /\ gate.env = "healthy" => p = Probe("status", 200)
  /\ gate' = [gate EXCEPT !.fetches[i] = AnsweredFetch(p)]
  /\ GateOnly

\* the backend is not up: the fetch rejects, or a gateway answers for it
BackendDown(i, f) ==
  /\ i \in 1..Len(gate.fetches)
  /\ gate.fetches[i].st = "sent"
  /\ gate.env = "any"
  /\ gate' = [gate EXCEPT !.fetches[i] = f]
  /\ GateOnly

\* line 324 alone: the gate is opened on the backend's status
OpensGateBackendOnly(resp) == resp.status = "ok"

\* lines 324 and 327: the response that lets the gate open
OpensGate(resp) == resp.status = "ok" /\ resp.aiService = "ok"

\* lines 320-339: checkHealth from the outcome of its fetch on; setting the
\* state of the awakener does nothing once it is unmounted, the timer is set
\* all the same
ReceiveHealth(i) ==
  /\ i \in 1..Len(gate.fetches)
  /\ LET f == gate.fetches[i]
         g == [gate EXCEPT !.fetches = Drop(@, i)]
         resOk == f.st = "answered" /\ f.resp.http >= 200 /\ f.resp.http <= 299
         set(b, a) == IF gate.isReady THEN g
                      ELSE [g EXCEPT !.backendStatus = b, !.aiStatus = a]
     IN /\ f.st # "sent"
        /\ IF ~resOk THEN gate' = set("error", "pending")
           ELSE IF OpensGate(f.resp)
           THEN /\ gate.timers < MaxTimers
                /\ gate' = [set("ok", "ok") EXCEPT
                              !.timers = @ + 1,
                              !.okSeen = @ \/ (f.resp.status = "ok" /\ f.resp.aiService = "ok")]
           ELSE IF f.resp.status = "ok" THEN gate' = set("ok", "error")
           ELSE gate' = g
  /\ GateOnly

\* lines 329-331 and ClientGatekeeper line 16: a timer fires, onReady sets
\* isReady; the awakener is unmounted and its cleanup clears the interval
ReadyTimer ==
  /\ gate.timers > 0
  /\ gate' = [gate EXCEPT !.timers = @ - 1, !.isReady = TRUE, !.interval = FALSE]
  /\ GateOnly

\* from here on the backend is up and its probe gets status 200
Recover ==
  /\ gate.env = "any"
  /\ gate' = [gate EXCEPT !.env = "healthy"]
  /\ GateOnly

\* ClientGatekeeper lines 15-18: what is rendered
AwakenerRendered == ~gate.isReady
ContentRendered == gate.isReady

NextGate ==
  \/ AwakenerEffect
  \/ IntervalTick
  \/ \E i \in 1..MaxFetches, p \in ProbeOutcomes : Health(i, p)
  \/ \E i \in 1..MaxFetches, f \in {RejectedFetch, GatewayFetch} : BackendDown(i, f)
  \/ \E i \in 1..MaxFetches : ReceiveHealth(i)
  \/ ReadyTimer
  \/ Recover

SpecGate == Init /\ [][NextGate]_vars

\* timers fire, the effect runs after the render, requests are answered and
\* their answers reach the page
FairGate ==
  /\ SpecGate
  /\ WF_vars(AwakenerEffect)
  /\ WF_vars(IntervalTick)
  /\ WF_vars(ReadyTimer)
  /\ WF_vars(\E i \in 1..MaxFetches, p \in ProbeOutcomes : Health(i, p))
  /\ WF_vars(\E i \in 1..MaxFetches : ReceiveHealth(i))

\* ------------------------------------- asks on the flat-file project
\* the uploaded file is replaced, or removed (c is "ENOENT"), outside the
\* backend
WriteFile(c) ==
  /\ c # disk[CsvPath]
  /\ disk' = [disk EXCEPT ![CsvPath] = c]
  /\ UNCHANGED <<projects, sessions, nextSid, req, del, asks, ui, norm, chart, adv, gate>>

\* questions of user u1 on project 2, in a new session or in one that exists
CsvBodies ==
  [user : {"u1"}, hasQuestion : {TRUE}, question : Questions,
   sessionId : {NoId} \cup {s \in SessionIds : sessions[s].projectId = 2},
   projectId : {NoId, 2}]

NextCsv ==
  \/ \E body \in CsvBodies : Ask("api", body)
  \/ FindSession("api")
  \/ Populate("api")
  \/ FindProject("api")
  \/ \E a \in AiAnswers : AIRespond("api", a.sql, a.data)
  \/ AIFail("api")
  \/ Save("api")
  \/ DbFail("api")
  \/ \E c \in FileContents \cup {NoFile} : WriteFile(c)

SpecCsv == Init /\ [][NextCsv]_vars

\* ------------------------- asks that name a session the caller has not
\* user u2 owns a project as well
OtherProject == 3
InitTwoOwners ==
  /\ projects = [p \in ProjectIds \cup {OtherProject} |->
                   IF p = OtherProject
                   THEN [userId |-> "u2", type |-> "mysql", dbConfig |-> [database |-> "db3"]]
                   ELSE ProjectDocs[p]]
  /\ sessions = [s \in {1} |-> SessionDoc("u1", 1, Q1, Transcript(1))]
  /\ nextSid = 2
  /\ req = [r \in Slots |-> IdleReq]
  /\ del = [pc |-> "idle", project |-> NoId]
  /\ asks = 0
  /\ ui = InitUi
  /\ norm = [applied |-> FALSE]
  /\ chart = [mounted |-> FALSE]
  /\ adv = [applied |-> FALSE]
  /\ gate = InitGate
  /\ disk = InitDisk

\* questions of either user that carry a session id (a stale one, or the id
\* of a session in the collection) and a project id
NamedBodies ==
  [user : Users, hasQuestion : {TRUE}, question : {Q1, Q2},
   sessionId : SessionIds \cup {StaleSid},
   projectId : {1, OtherProject}]

NextNamed ==
  \/ \E r \in Slots, body \in NamedBodies : Ask(r, body)
  \/ \E r \in Slots : FindSession(r)
  \/ \E r \in Slots : Populate(r)
  \/ \E r \in Slots : FindProject(r)
  \/ \E r \in Slots, a \in AiAnswers : AIRespond(r, a.sql, a.data)
  \/ \E r \in Slots : AIFail(r)
  \/ \E r \in Slots : Save(r)
  \/ \E r \in Slots : DbFail(r)

SpecNamed == InitTwoOwners /\ [][NextNamed]_vars

\* -------------------------------------------------------------- properties
InFlight == {"findSession", "populate", "findProject", "awaitAI", "save"}

\* the request of slot r ends in this step
Finishes(r) == req[r].pc \in InFlight /\ req'[r].pc = "done"

IsPrefix(s, t) == Len(s) <= Len(t) /\ SubSeq(t, 1, Len(s)) = s

Alternates(msgs) ==
  /\ Len(msgs) % 2 = 0
  /\ \A i \in 1..Len(msgs) : msgs[i].role = (IF i % 2 = 1 THEN "user" ELSE "ai")

\* C1: an ask that returns 200 leaves the returned session with exactly two
\* more messages than before (two messages for a new session), the user
\* message of the request followed by an assistant message; every persisted
\* transcript has even length and alternates user, ai.
C1_TurnAppendedWhole ==
  /\ [](\A s \in SessionIds : Alternates(sessions[s].messages))
  /\ [][\A r \in Slots :
          (Finishes(r) /\ req'[r].resp.status = 200) =>
            LET sid == req'[r].resp.sessionId
                before == IF sid \in DOMAIN sessions
                          THEN sessions[sid].messages ELSE <<>>
            IN /\ sid \in DOMAIN sessions'
               /\ (req[r].session = NoId) = (sid \notin DOMAIN sessions)
               /\ LET after == sessions'[sid].messages
                  IN /\ Len(after) = Len(before) + 2
                     /\ IsPrefix(before, after)
                     /\ after[Len(after) - 1] = UserMessage(req[r].body.question)
                     /\ after[Len(after)].role = "ai"]_vars

C1_Witness ==
  \E r \in Slots :
    /\ req[r].pc = "done" /\ req[r].op = "chat" /\ req[r].resp.status = 200
    /\ req[r].resp.sessionId \in SessionIds
    /\ Len(sessions[req[r].resp.sessionId].messages) = 14

\* C2: the history sent to the inference service is the last min(10, n) of
\* the n messages the session had when it was loaded, in order, each as
\* speaker and text content; it is empty without a session and never longer
\* than 10.
C2_ReplayWindow ==
  \A r \in Slots :
    req[r].pc = "awaitAI" =>
      LET prior == req[r].loaded
          n == Len(prior)
          m == IF n < 10 THEN n ELSE 10
          h == req[r].history
      IN /\ Len(h) = m
         /\ Len(h) <= 10
         /\ req[r].session = NoId => h = <<>>
         /\ \A i \in 1..m :
              /\ h[i][1] = (IF prior[n - m + i].role = "user" THEN "User" ELSE "AI")
              /\ h[i][2] = prior[n - m + i].content
         /\ req[r].session \in SessionIds =>
              IsPrefix(prior, sessions[req[r].session].messages)

C2_Witness ==
  \E r \in Slots :
    req[r].pc = "awaitAI" /\ Len(req[r].loaded) = 12 /\ Len(req[r].history) = 10

\* C3: when ask names an existing session of the caller, the connection
\* sent to the inference service is the one of the session's bound project
\* whatever projectId is supplied, the turn goes to that session (its id is
\* returned), and the projectId of an existing session never changes.
C3_SessionProjectWins ==
  /\ [](\A r \in Slots :
          (req[r].pc \in {"awaitAI", "save"} /\ req[r].session # NoId) =>
            /\ req[r].project = req[r].bound
            /\ req[r].conn = SentConnection(ProjectDocs[req[r].bound]))
  /\ [][\A r \in Slots :
          (Finishes(r) /\ req'[r].resp.status = 200 /\ req[r].session # NoId) =>
            req'[r].resp.sessionId = req[r].session]_vars
  /\ [][\A s \in DOMAIN sessions \cap DOMAIN sessions' :
          sessions'[s].projectId = sessions[s].projectId]_vars

\* C4: the text of a persisted assistant message is the success text exactly
\* when the inference response carried a generated query (sql), and the
\* no-query text otherwise, whatever the result payload is.
C4_TextFollowsQuery ==
  \A s \in SessionIds :
    \A i \in 1..Len(sessions[s].messages) :
      LET msg == sessions[s].messages[i]
      IN msg.role = "ai" =>
           msg.content = (IF Truthy(msg.sql) THEN SuccessText ELSE NoQueryText)

\* the request of slot r arrives in this step
Arrives(r) ==
  req[r].pc \in {"idle", "done"} /\ req'[r] # req[r] /\ req'[r].op = "chat"

\* C5: ask answers 400 when the question is missing or empty and when both
\* ids are missing; nothing is looked up, the inference service is not
\* called and no session is created or modified. Any other request is taken
\* on.
C5_Rejects ==
  [][\A r \in Slots :
       Arrives(r) =>
         LET body == req'[r].body
             noQuestion == ~body.hasQuestion \/ Len(body.question) = 0
             noIds == body.sessionId = NoId /\ body.projectId = NoId
         IN IF noQuestion \/ noIds
            THEN /\ req'[r].pc = "done"
                 /\ req'[r].resp = [status |-> 400]
                 /\ req'[r].lookups = 0 /\ req'[r].aiCalls = 0 /\ req'[r].writes = 0
                 /\ sessions' = sessions /\ projects' = projects
            ELSE req'[r].pc \in InFlight]_vars

C5_Witness ==
  \E r \in Slots :
    /\ req[r].pc = "done" /\ req[r].resp.status = 400
    /\ req[r].body.hasQuestion /\ req[r].body.question = <<>>
    /\ req[r].body.sessionId # NoId

\* what the request body resolves to in the current database
SessionResolves(body) ==
  /\ body.sessionId \in SessionIds
  /\ sessions[body.sessionId].userId = body.user
  /\ sessions[body.sessionId].projectId \in DOMAIN projects

ProjectResolves(body) ==
  /\ body.projectId \in DOMAIN projects
  /\ ProjectDocs[body.projectId].userId = body.user

\* C6: when neither the sessionId resolves to a session of the caller with a
\* project nor the projectId to a project of the caller, the lookups end in
\* 404 (or in 500 when a lookup itself fails), the inference service is not
\* called and no session is created or modified.
C6_NotFound ==
  [][\A r \in Slots :
       (/\ req[r].pc \in {"findSession", "populate", "findProject"}
        /\ req'[r] # req[r]
        /\ ~SessionResolves(req[r].body)
        /\ ~ProjectResolves(req[r].body)) =>
         /\ req'[r].pc \in {"populate", "findProject", "done"}
         /\ req[r].pc = "findProject" => req'[r].pc = "done"
         /\ req[r].body.projectId = NoId => req'[r].pc \in {"populate", "done"}
         /\ req'[r].pc = "done" =>
              /\ req'[r].resp = [status |-> IF req'[r].fault = "read" THEN 500 ELSE 404]
              /\ req'[r].aiCalls = 0 /\ req'[r].writes = 0
         /\ sessions' = sessions /\ nextSid' = nextSid]_vars

C6_Witness ==
  \E r \in Slots :
    /\ req[r].pc = "done" /\ req[r].resp.status = 404
    /\ req[r].lookups = 2 /\ req[r].aiCalls = 0

\* C7: when the inference call fails (transport error, non-2xx, or a
\* response without a result payload) ask answers 500, the service was
\* called exactly once for the request, and no message was appended and no
\* session created.
C7_InferenceFailure ==
  /\ [](\A r \in Slots :
          /\ req[r].aiCalls <= 1
          /\ req[r].pc = "save" => req[r].data.kind # "undefined")
  /\ [][\A r \in Slots :
          (req[r].pc = "awaitAI" /\ req'[r].pc = "done") =>
            /\ req'[r].resp = [status |-> 500]
            /\ req'[r].aiCalls = 1 /\ req'[r].writes = 0
            /\ sessions' = sessions /\ nextSid' = nextSid]_vars

C7_Witness ==
  \E r \in Slots :
    /\ req[r].pc = "done" /\ req[r].fault = "payload"
    /\ req[r].resp.status = 500 /\ req[r].aiCalls = 1

\* C8: when the save fails the caller gets 500 without session id, query or
\* result; a 200 with the turn's content is sent only in the step in which
\* the save wrote the turn.
C8_NoAnswerWithoutSave ==
  /\ [](\A r \in Slots :
          (req[r].pc = "done" /\ req[r].op = "chat") =>
            IF req[r].resp.status = 200
            THEN req[r].writes = 1
            ELSE DOMAIN req[r].resp = {"status"})
  /\ [][\A r \in Slots :
          (req[r].pc = "save" /\ req'[r].pc = "done") =>
            IF req'[r].resp.status = 200
            THEN /\ req'[r].resp.sessionId \in DOMAIN sessions'
                 /\ sessions' # sessions
                 /\ IsPrefix(req'[r].resp.messages,
                             SliceLast(sessions'[req'[r].resp.sessionId].messages, 2))
            ELSE /\ req'[r].resp = [status |-> 500]
                 /\ sessions' = sessions]_vars

C8_Witness ==
  \E r \in Slots :
    /\ req[r].pc = "done" /\ req[r].fault = "save"
    /\ req[r].resp.status = 500 /\ req[r].aiCalls = 1 /\ req[r].writes = 0

\* C9: the inference call carries a timeout, so every accepted ask is
\* eventually answered even when the inference service never answers.
C9_EveryAskAnswered ==
  \A r \in Slots : (req[r].pc \in InFlight) ~> (req[r].pc = "done")

\* C10: when the chat request did not succeed (timeout, transport failure,
\* error status) the assistant message the page appends is never the
\* no-query text.
C10_FailureShownAsFailure ==
  ui.last.status # 200 => ui.last.content # NoQueryText

\* the session id of the request of slot r names a session of another user
Foreign(rq) ==
  /\ rq.body.sessionId \in SessionIds
  /\ sessions[rq.body.sessionId].userId # rq.body.user

\* C11: a request of user U never returns, extends or changes a session of
\* another owner: a step of a chat request leaves the sessions of other
\* users as they are, the session it loads and the session id it answers
\* with belong to U, and a history request answers with a session only when
\* it belongs to U. With the id of another user's session both routes do
\* what they do with an id that names no session: history answers 404 and
\* ask goes on without any session.
C11_OwnerIsolation ==
  /\ [](\A r \in Slots :
          /\ (req[r].pc \in InFlight /\ req[r].session # NoId) =>
               /\ req[r].session = req[r].body.sessionId
               /\ req[r].session \in SessionIds =>
                    sessions[req[r].session].userId = req[r].body.user
          /\ (req[r].pc = "done" /\ req[r].op = "history") =>
               IF req[r].resp.status = 200
               THEN req[r].resp.session.userId = req[r].body.user
               ELSE DOMAIN req[r].resp = {"status"})
  /\ [][\A r \in Slots :
          /\ (req[r].pc \in InFlight /\ req'[r] # req[r]) =>
               /\ \A s \in SessionIds :
                    sessions[s].userId # req[r].body.user =>
                      s \in DOMAIN sessions' /\ sessions'[s] = sessions[s]
               /\ (req'[r].pc = "done" /\ req'[r].resp.status = 200) =>
                    sessions'[req'[r].resp.sessionId].userId = req[r].body.user
          /\ (req[r].pc = "findSession" /\ req'[r] # req[r] /\ Foreign(req[r])) =>
               /\ req'[r].session = NoId /\ req'[r].loaded = <<>>
               /\ req'[r].bound = NoId
               /\ req'[r].pc \in {"findProject", "done"}
               /\ req'[r].pc = "done" => req'[r].resp.status \in {404, 500}
          /\ (req'[r] # req[r] /\ req'[r].op = "history" /\ Foreign(req'[r])) =>
               /\ req'[r].resp.status \in {404, 500}
               /\ sessions' = sessions]_vars

\* a request of u2 with the id of a session of u1 went past the session
\* lookup
C11_Witness ==
  \E r \in Slots :
    /\ req[r].pc = "findProject" /\ req[r].body.user = "u2"
    /\ Foreign(req[r]) /\ req[r].lookups = 1 /\ req[r].session = NoId

\* C12: deleting a project removes its sessions: once the delete is over
\* and no request is in flight, every stored session refers to a project
\* that still exists.
C12_CascadeComplete ==
  (del.pc = "idle" /\ \A r \in Slots : req[r].pc \notin InFlight) =>
    \A s \in SessionIds : sessions[s].projectId \in DOMAIN projects

\* C20: the title of a session created by ask is the question when it has
\* at most 50 characters and its first 50 characters followed by "..."
\* otherwise; it has at most 53 characters; later asks on the session leave
\* it as it is.
C20_TitleFromQuestion ==
  /\ [][\A r \in Slots : \A s \in DOMAIN sessions' \ DOMAIN sessions :
          LET q == req[r].body.question
              t == sessions'[s].title
          IN (req[r].pc = "save" /\ req'[r].pc = "done") =>
               /\ Len(q) <= 50 => t = q
               /\ Len(q) > 50 =>
                    /\ Len(t) = 53
                    /\ \A i \in 1..50 : t[i] = q[i]
                    /\ \A i \in 51..53 : t[i] = "."
               /\ Len(t) <= 53]_vars
  /\ [][\A s \in DOMAIN sessions \cap DOMAIN sessions' :
          sessions'[s].title = sessions[s].title]_vars

\* a session made from a question of more than 50 characters took a second
\* turn
C20_Witness ==
  \E s \in SessionIds :
    /\ Len(sessions[s].title) = 53
    /\ Len(sessions[s].messages) = 4
    /\ Len(sessions[s].messages[1].content) > 50

\* C13: parseResult never throws, and for a text that JSON.parse rejects
\* after the rewrites it returns the empty array.
C13_NeverThrows ==
  norm.applied =>
    /\ ~norm.res.threw
    /\ (IsString(norm.raw) /\ ~JsonParse(Cleaned(norm.raw.val)).ok) =>
         norm.res.v = JArr(<<>>)

\* parseResult was given a text with an unclosed bracket
C13_Witness ==
  /\ norm.applied /\ IsString(norm.raw)
  /\ norm.raw.val = <<"[", "(", "1">>
  /\ norm.res = Returned(JArr(<<>>))

\* the values the cells of the payloads denote
One == JNum(FALSE, 1, <<>>, 0)
Seven == JNum(FALSE, 7, <<>>, 0)
ThreeAndHalf == JNum(FALSE, 3, <<"5">>, 0)

\* C14 as stated: for "[(1, 'a', None, Decimal('3.50'))]" parseResult
\* returns one positional row with the cells 1, "a", null and the text
\* "3.50".
C14_DecimalAsText ==
  (norm.applied /\ norm.raw = [kind |-> "string", val |-> MixedRow]) =>
    norm.res = Returned(JArr(<<JArr(<<One, JStr(<<"a">>), JNull,
                                      JStr(<<"3", ".", "5", "0">>)>>)>>))

\* C14, amended: for that payload parseResult returns one positional row
\* with the cells 1, "a", null and the number 3.5.
C14_DecimalAsNumber ==
  (norm.applied /\ norm.raw = [kind |-> "string", val |-> MixedRow]) =>
    norm.res = Returned(JArr(<<JArr(<<One, JStr(<<"a">>), JNull, ThreeAndHalf>>)>>))

C14_Witness ==
  /\ norm.applied /\ norm.raw = [kind |-> "string", val |-> MixedRow]
  /\ ~norm.res.threw /\ Len(norm.res.v.a) = 1 /\ Len(norm.res.v.a[1].a) = 4

\* all six arguments of DateArgs joined with '-', and the length of the text
\* that joins the first n of them
AllJoined == <<"2", "0", "2", "3", "-", "5", "-", "1", "-", "1", "0", "-", "3", "0", "-", "0">>
JoinedLen == [n \in 3..6 |-> CASE n = 3 -> 8 [] n = 4 -> 11 [] n = 5 -> 14 [] n = 6 -> 16]

\* the payload is the row with a datetime wrapper of n arguments
IsDateRow(n) ==
  /\ IsString(norm.raw)
  /\ \E sep \in {<<",">>, <<",", " ">>, <<" ", ",", " ", " ">>} : norm.raw.val = DateRow(n, sep)

Advised == adv.applied /\ adv.res.kind = "advice"

HasDateWord(name) ==
  \E w \in DateWords : \E i \in 1..Len(name) : StartsAt(ToLowerCase(name), i, w)

\* C17: the chart type of an advice follows the first rule that applies:
\* line when the name of the label column holds date, time or year in any
\* case; else pie when there are at most 5 rows and one value column; else
\* line when there are more than 20 rows; else bar. So 3 rows with one
\* numeric column and a label without those words give pie, a second
\* numeric column gives bar, and 25 rows give line.
C17_FirstMatchingRule ==
  Advised =>
    LET rows == Len(adv.data.a)
        values == Len(adv.res.valueKeys)
        dated == HasDateWord(adv.res.labelKey)
        type == adv.res.suggestedType
    IN /\ dated => type = "line"
       /\ (~dated /\ rows <= 5 /\ values = 1) => type = "pie"
       /\ (~dated /\ ~(rows <= 5 /\ values = 1) /\ rows > 20) => type = "line"
       /\ (~dated /\ ~(rows <= 5 /\ values = 1) /\ rows <= 20) => type = "bar"
       /\ (~dated /\ rows = 3 /\ values = 1) => type = "pie"
       /\ (~dated /\ rows = 3 /\ values = 2) => type = "bar"
       /\ (~dated /\ rows = 25) => type = "line"

\* three rows with one value column and a label named with a date word: the
\* first rule wins over the second
C17_Witness ==
  /\ Advised /\ Len(adv.data.a) = 3 /\ Len(adv.res.valueKeys) = 1
  /\ adv.res.labelKey = <<"O", "r", "d", "e", "r", "D", "a", "t", "e">>
  /\ adv.res.suggestedType = "line"

\* the columns of the first row, the positions of its texts and of its
\* numbers
FirstCols == IF adv.data.a = <<>> THEN <<>> ELSE Entries(adv.data.a[1])
TextCols == {i \in 1..Len(FirstCols) : FirstCols[i].v.t = "str"}
NumberCols == {i \in 1..Len(FirstCols) : FirstCols[i].v.t = "num"}
ColOf(key) == CHOOSE i \in 1..Len(FirstCols) : FirstCols[i].k = key

\* C18: the analysis looks at the first row only. It gives no advice
\* exactly when there is no row or the first row has no numeric cell; the
\* label is the first column whose value in the first row is a text, else
\* the first column; the value columns are the numeric columns of the first
\* row in their order; the rows after the first make no difference.
C18_FirstRowSplit ==
  adv.applied =>
    /\ adv.res = NoAdvice <=> NumberCols = {}
    /\ Advised =>
         /\ adv.res.labelKey =
              FirstCols[IF TextCols # {} THEN First(TextCols) ELSE 1].k
         /\ Len(adv.res.valueKeys) = Cardinality(NumberCols)
         /\ {ColOf(adv.res.valueKeys[n]) : n \in 1..Len(adv.res.valueKeys)} = NumberCols
         /\ \A m, n \in 1..Len(adv.res.valueKeys) :
              m < n => ColOf(adv.res.valueKeys[m]) < ColOf(adv.res.valueKeys[n])
         /\ LET alone == Analysis(JArr(<<adv.data.a[1]>>))
            IN /\ alone.labelKey = adv.res.labelKey
               /\ alone.valueKeys = adv.res.valueKeys

\* C19: the chart a ChartRenderer instance shows is never the pie chart
\* while its data has more than one value column, whatever chart types were
\* selected and whatever data the instance was given before.
C19_NoPieWithManyValues ==
  (chart.mounted /\ Analysis(chart.data).kind = "advice"
     /\ Len(Analysis(chart.data).valueKeys) > 1) =>
    chart.chartType # "pie"

\* C21: GET /api/health always answers with success and status 'ok',
\* whatever the probe of the inference service ended with; aiService is
\* 'ok' only when the probe returned status 200, and 'down' when the probe
\* failed or timed out.
C21_HealthAlwaysOk ==
  \A i \in 1..Len(gate.fetches) :
    LET f == gate.fetches[i]
    IN (f.st = "answered" /\ f.probe.kind # "none") =>
         /\ f.resp.http = 200
         /\ f.resp.status = "ok"
         /\ f.resp.aiService = "ok" => (f.probe.kind = "status" /\ f.probe.code = 200)
         /\ f.probe.kind \in {"error", "timeout"} => f.resp.aiService = "down"
         /\ (f.probe.kind = "status" /\ f.probe.code = 200) => f.resp.aiService = "ok"

C21_Witness ==
  \E i, j \in 1..Len(gate.fetches) :
    /\ gate.fetches[i].st = "answered" /\ gate.fetches[i].probe = Probe("status", 204)
    /\ gate.fetches[i].resp.aiService = "error"
    /\ gate.fetches[j].st = "answered" /\ gate.fetches[j].probe = Probe("timeout", 0)
    /\ gate.fetches[j].resp.aiService = "down"

\* C29: the content behind the gate is rendered only after a health
\* response reported status 'ok' and aiService 'ok'; once the gate is open
\* it never closes, whatever later responses and timers do; the awakener
\* and the content are never rendered together.
C29_GateOpensOnceOnOk ==
  /\ [](ContentRendered => gate.okSeen)
  /\ [][ContentRendered => ContentRendered']_vars
  /\ [](~(AwakenerRendered /\ ContentRendered))

C29_Witness ==
  /\ ContentRendered
  /\ gate.timers > 0
  /\ \E i \in 1..Len(gate.fetches) :
       gate.fetches[i].st = "answered" /\ gate.fetches[i].resp.http = 200
       /\ gate.fetches[i].resp.aiService = "down"

\* C30: while the gate is closed the awakener keeps polling: after a failed
\* probe, in the 'error' and 'down' states and after a backend error the
\* interval stays set (it is given up only with a timer pending that opens
\* the gate); and once every health response reports 'ok' and 'ok', the gate
\* eventually opens.
C30_PollsUntilOpen ==
  /\ [](AwakenerRendered =>
          \/ <<gate.backendStatus, gate.aiStatus>> # gate.seen
          \/ gate.interval /\ gate.seen # <<"ok", "ok">>
          \/ gate.timers > 0)
  /\ (gate.env = "healthy") ~> ContentRendered

C30_Witness ==
  /\ gate.env = "healthy" /\ ContentRendered
  /\ gate.seen = <<"error", "pending">>

\* C24: for a flat-file project the connection descriptor sent with an ask
\* carries the content the file has when that ask resolves its project (a
\* file changed between two asks is sent with its new content); when the
\* file cannot be read the descriptor goes out with the path and without
\* content, and the inference service is called all the same.
C24_FileReadAtEachAsk ==
  [][\A r \in Slots :
       (req[r].pc \in InFlight \ {"awaitAI"} /\ req'[r].pc # req[r].pc
        /\ req'[r].pc \in InFlight /\ req'[r].project # NoId
        /\ projects[req'[r].project].type = "csv") =>
         LET path == projects[req'[r].project].csvPath
             config == req'[r].conn.config
         IN /\ req'[r].pc = "awaitAI"
            /\ req'[r].aiCalls = req[r].aiCalls + 1
            /\ req'[r].conn.type = "csv"
            /\ config.csvPath = path
            /\ IF disk[path] = NoFile
               THEN DOMAIN config = {"csvPath"}
               ELSE DOMAIN config = {"csvPath", "csvContent"}
                    /\ config.csvContent = disk[path]]_vars

\* a second ask of a session of project 2 goes out with the new content, or
\* with none once the file is gone
C24_Witness ==
  /\ req["api"].pc = "awaitAI" /\ req["api"].session \in SessionIds
  /\ sessions[req["api"].session].projectId = 2
  /\ req["api"].conn.config = [csvPath |-> CsvPath, csvContent |-> "a,b,c"]
  /\ disk[CsvPath] = NoFile

\* C23: the messages of a session are append-only: whatever asks run, the
\* transcript of a session before a step is a prefix of its transcript
\* after the step (no message is removed, reordered or changed), and a
\* session leaves the collection only by the cascade of a project deletion.
C23_AppendOnly ==
  [][\A s \in DOMAIN sessions :
       IF s \in DOMAIN sessions'
       THEN IsPrefix(sessions[s].messages, sessions'[s].messages)
       ELSE del.pc = "cascade" /\ sessions[s].projectId = del.project]_vars

C23_Witness ==
  \E s \in SessionIds :
    /\ Len(sessions[s].messages) = 16
    /\ SubSeq(sessions[s].messages, 1, 12) = Transcript(6)
    /\ \A r \in Slots : req[r].pc \in {"idle", "done"}

\* C25: an ask whose sessionId matches no session of the caller and whose
\* projectId names a project of the caller is not refused: unless the
\* inference service or the database fails it is answered 200, with a new
\* session of the caller bound to that project, holding exactly the two
\* messages of the turn, sent with an empty replay window; the id returned
\* is new and differs from the one given, and no existing session changes.
C25_StaleSessionStartsNew ==
  [][\A r \in Slots :
       LET body == req[r].body
           sid == req'[r].resp.sessionId
       IN (/\ Finishes(r)
           /\ body.sessionId # NoId
           /\ ~(body.sessionId \in DOMAIN sessions
                /\ sessions[body.sessionId].userId = body.user)
           /\ body.projectId \in DOMAIN projects
           /\ projects[body.projectId].userId = body.user) =>
            /\ req'[r].resp.status \in {200, 500}
            /\ req'[r].resp.status = 500 =>
                 req'[r].fault \in {"ai", "payload", "read", "save"}
            /\ req'[r].resp.status = 200 =>
                 /\ req[r].history = <<>>
                 /\ sid # body.sessionId
                 /\ sid \notin DOMAIN sessions
                 /\ sid \in DOMAIN sessions'
                 /\ sessions'[sid].userId = body.user
                 /\ sessions'[sid].projectId = body.projectId
                 /\ sessions'[sid].messages =
                      <<UserMessage(body.question), AiMessage(req[r].sql, req[r].data)>>
                 /\ \A s \in DOMAIN sessions : sessions'[s] = sessions[s]]_vars

\* user u2 named the session of u1 and got a session of its own
C25_Witness ==
  \E r \in Slots, s \in SessionIds :
    /\ req[r].pc = "done" /\ req[r].op = "chat" /\ req[r].resp.status = 200
    /\ req[r].resp.sessionId = s
    /\ sessions[s].userId = "u2" /\ sessions[s].projectId = OtherProject
    /\ Len(sessions[s].messages) = 2
    /\ sessions[1] = SessionDoc("u1", 1, Q1, Transcript(1))

\* C26: when two asks on the same session overlap (each loaded the session
\* before the other saved) and both are answered 200, neither turn is lost:
\* the transcript has grown by exactly four messages, the two messages of
\* one request followed by the two messages of the other, in either order.
C26_OverlappingTurnsKept ==
  \A r, o \in Slots :
    (/\ r # o
     /\ req[r].pc = "done" /\ req[r].op = "chat" /\ req[r].resp.status = 200
     /\ req[o].pc = "done" /\ req[o].op = "chat" /\ req[o].resp.status = 200
     /\ req[r].resp.sessionId = req[o].resp.sessionId
     /\ req[r].base = req[o].base) =>
      LET s == req[r].resp.sessionId
          b == req[r].base
      IN /\ s \in SessionIds
         /\ Len(sessions[s].messages) = b + 4
         /\ \A x \in {r, o} :
              /\ Len(req[x].resp.messages) = 2
              /\ req[x].resp.messages[1].role = "user"
              /\ req[x].resp.messages[2].role = "ai"
         /\ \/ SubSeq(sessions[s].messages, b + 1, b + 4) =
                 req[r].resp.messages \o req[o].resp.messages
            \/ SubSeq(sessions[s].messages, b + 1, b + 4) =
                 req[o].resp.messages \o req[r].resp.messages

\* the two requests asked different questions and got different answers
C26_Witness ==
  /\ req["ui"].pc = "done" /\ req["ui"].op = "chat" /\ req["ui"].resp.status = 200
  /\ req["api"].pc = "done" /\ req["api"].op = "chat" /\ req["api"].resp.status = 200
  /\ req["ui"].resp.sessionId = 1 /\ req["api"].resp.sessionId = 1
  /\ req["ui"].base = 2 /\ req["api"].base = 2
  /\ sessions[1].messages =
       Transcript(1) \o <<UserMessage(Q2), AiMessage(SqlText, DataString)>>
                     \o <<UserMessage(Q1), AiMessage(Undefined, DataString)>>
  /\ req["ui"].resp.messages[1] = UserMessage(Q1)

\* C22: the result stored in the assistant message is the result payload
\* of the inference service as it came, the same value the response
\* carries; and when the page reloads the session of the answer it last
\* received and still shows (a question as typed, followed by the answer),
\* the data it shows for that answer's message after the reload are the
\* data it showed when the answer arrived.
C22_ReloadShowsSameRows ==
  /\ [][\A r \in Slots :
          (Finishes(r) /\ req'[r].resp.status = 200) =>
            LET stored == sessions'[req'[r].resp.sessionId].messages
            IN /\ stored[Len(stored)].result = req[r].data
               /\ req'[r].resp.result = req[r].data]_vars
  /\ [][(/\ ui.hist.st = "pending" /\ ui'.hist.st = "none"
         /\ ui.hist.resp.status = 200
         /\ ui.fetch = "none"
         /\ req["ui"].pc = "done" /\ req["ui"].resp.status = 200
         /\ req["ui"].resp.sessionId = ui.hist.id
         /\ Len(ui.hist.resp.session.messages) >= req["ui"].base + 2
         /\ Len(ui.messages) >= 2
         /\ DOMAIN ui.messages[Len(ui.messages) - 1] = {"role", "content"}
         /\ ui.messages[Len(ui.messages) - 1].role = "user"
         /\ ui.messages[Len(ui.messages)].role = "ai") =>
           LET k == req["ui"].base + 2
               live == ui.messages[Len(ui.messages)]
           IN /\ Len(ui'.messages) = Len(ui.hist.resp.session.messages)
              /\ ui'.messages[k].role = "ai"
              /\ ui'.messages[k].data = live.data
              /\ ShowsResult(ui'.messages[k].data) = ShowsResult(live.data)]_vars

\* the page shows, reloaded, the session whose answer it last received,
\* with the rows of that answer
C22_Witness ==
  /\ ui.hist.st = "none" /\ ui.sessionId \in SessionIds
  /\ Len(ui.messages) = 2
  /\ ui.messages[1].role = "user" /\ "sql" \in DOMAIN ui.messages[1]
  /\ ui.messages[2].role = "ai"
  /\ ui.last.status = 200
  /\ ShowsResult(DataOf(ui.messages[2]))
  /\ Len(sessions[ui.sessionId].messages) = 2
  /\ sessions[ui.sessionId].messages[2].result = DataString

\* C27: whenever the page sends a question with a session id, the project
\* of that session is the project selected in the page.
C27_SessionOnSelectedProject ==
  LET body == req["ui"].body
  IN (req["ui"].pc \in InFlight /\ body.sessionId \in SessionIds) =>
       sessions[body.sessionId].projectId = body.projectId

\* C28: after startNewQuery, the response to a question sent before it
\* neither sets the session id of the page nor adds a message, and the next
\* question is sent without a session id.
C28_NewQueryStartsUnbound ==
  [][/\ (ui.fresh /\ ui.fetch = "pending" /\ ui'.fetch = "none") =>
          (ui'.sessionId = NoId /\ ui'.messages = ui.messages)
     /\ (ui.fresh /\ ui.fetch = "none" /\ ui'.fetch = "pending") =>
          req'["ui"].body.sessionId = NoId]_vars

====
